---- MODULE Spec2Model ----
(***************************************************************************)
(* LLMScope ingestion pipeline: the ingest endpoint (app/api/events.py),   *)
(* the Redis primary queue and dead letter queue, the background worker    *)
(* (app/workers/event_processor.py) and the event store                    *)
(* (EventService.store_event on the llm_events table).                     *)
(* Spec is the single-event pipeline; BatchSpec adds the batch endpoint    *)
(* and request validation, LifecycleSpec the worker's shutdown paths and   *)
(* the live update bus, FieldSpec follows one event field by field.        *)
(* AuthSpec is the API key gate (app/dependencies.py), AdminSpec the       *)
(* pipeline with the events viewer's delete endpoint (app/main.py),        *)
(* RecentSpec the recent read, BusSpec the viewers of the live update bus  *)
(* (app/api/websocket.py), SdkSpec the client SDK's tracker                *)
(* (sdk/python/llmscope/tracker.py), PatchSpec its OpenAI patch            *)
(* (sdk/python/llmscope/integrations/openai_patch.py). PayloadSpec is the  *)
(* worker on payloads of any shape, PoolSpec two workers on one queue.     *)
(***************************************************************************)
EXTENDS Integers, Sequences, FiniteSets, TLC

\* ---------------------------------------------------------------- bounds
MaxEnq == 3           \* payloads appended to the primary queue in one run
BatchSize == 2        \* settings.redis_queue_batch_size, scaled down from 100
MaxBatchLen == 2      \* BatchIngestRequest.events max_length, scaled down from 100
DefaultLimit == 2     \* get_recent_events' limit: int = 100, scaled down from 100
MaxViewers == 2       \* WebSocket clients that connect in one run

\* ------------------------------------------------------ program constants
MaxRetries == 3       \* settings.worker_max_retries
BackoffBase == 2      \* settings.worker_retry_backoff_base

Times == {"t1", "t2"}                 \* instants an event's time can take
None == [none |-> TRUE]
Unknown == [unknown |-> TRUE]         \* the event_id "unknown"

VARIABLES
  queue,               \* Redis list settings.redis_queue_name, head first
  dlq,                 \* Redis list settings.redis_dlq_name, head first
  store,               \* rows of llm_events
  tenantCache,         \* _default_tenant_cache is set
  projectCache,        \* _default_project_cache is set
  pc,                  \* the worker's position in run / process_batch
  events_to_process,   \* process_batch's local list
  idx,                 \* position of the for loop over events_to_process
  retry_count,         \* process_single_event's retry_count
  running,             \* EventProcessor.running
  shutdown,            \* history: SIGINT was delivered or stop() was called
  db_active,           \* the transaction of process_batch's session db is
                       \* active (as it is for a new session)
  \* history (ghost) variables, read by the properties only
  nEnq,                \* payloads ever appended to the primary queue
  nPopped,             \* payloads ever removed from the primary queue
  accepted,            \* event ids returned with status accepted
  resp,                \* the ingest request just answered, else None
  popped,              \* payloads removed by the current process_batch
  popStart,            \* primary queue length when that batch began to pop
  popAvail,            \* payloads at hand when its pop loop ended
  fates,               \* per payload of that batch processed: where it went
  last,                \* what the last process_single_event of the batch did
  attempts,            \* store_event calls for the payload being processed
  backoffs,            \* seconds slept before each retry of that payload
  errors,              \* what each failed store_event call for it raised
  blocked,             \* a call for it raised though the table would have
                       \* taken the row
  dlq0,                \* DLQ length when processing of that payload began
  bresp,               \* the valid batch ingest request just answered, else None
  rejected,            \* the invalid ingest request just answered, else None
  broadcast,           \* the message just broadcast to the viewers, else None
  \* one event followed field by field from request to row
  req,                 \* the EventRequest a client sent
  event_data,          \* the dict queue_event serialised for it, else None
  row,                 \* the llm_events row store_event wrote for it, else None
  \* the read side, the live update bus and the client SDK
  recent,              \* the GET /events/recent request just answered, else None
  active_connections,  \* ConnectionManager.active_connections
  sockets,             \* per viewer: the condition of its WebSocket
  bc,                  \* the broadcast in progress or just ended, else None
  sdk,                 \* the SDK-wrapped call just made, else None
  \* a pool of workers on one queue, and the SDK's OpenAI patch
  pool,                \* per pool worker: its position and its batch
  taken,               \* history: the pops of the pool workers, in order
  patch                \* openai_patch's globals and the provider's methods

vars == <<queue, dlq, store, tenantCache, projectCache,
          pc, events_to_process, idx, retry_count, db_active,
          nEnq, nPopped, accepted, resp, popped, popStart, popAvail,
          fates, last, attempts, backoffs, errors, blocked, dlq0,
          running, shutdown, bresp, rejected, broadcast, req, event_data, row,
          recent, active_connections, sockets, bc, sdk, pool, taken, patch>>

dataVars == <<queue, dlq, store>>
sideVars == <<pool, taken, patch>>
cacheVars == <<tenantCache, projectCache>>
workerVars == <<pc, events_to_process, idx, retry_count, db_active>>
fieldVars == <<req, event_data, row>>
lifeVars == <<running, shutdown>>
busVars == <<active_connections, sockets, bc>>
batchHist == <<popped, popStart, popAvail, fates, last, attempts, backoffs, errors, blocked, dlq0>>

\* ------------------------------------------------------------ pure helpers
Min(a, b) == IF a < b THEN a ELSE b

RECURSIVE Pow(_, _)
Pow(b, e) == IF e = 0 THEN 1 ELSE b * Pow(b, e - 1)

\* json.dumps of an event dict: a parseable string carrying the dict.
JsonDumps(doc) == [wf |-> TRUE, doc |-> doc]

\* The bytes "{not-json": a string json.loads rejects.
Garbage == [wf |-> FALSE]

\* json.loads: the dict, or JSONDecodeError.
JsonLoads(s) == IF s.wf THEN [ok |-> TRUE, doc |-> s.doc] ELSE [ok |-> FALSE]

\* The JSON value []: it parses, and it is no dict (it has no get).
JsonArray == [array |-> <<>>]
IsObject(doc) == doc # JsonArray

\* str(uuid) and uuid.UUID(str).
UuidStr(u) == [uuid |-> u]
UUID(s) == s.uuid

\* datetime.isoformat() and datetime.fromisoformat(str).
IsoFormat(t) == [iso |-> t]
FromIsoFormat(s) == s.iso

\* Redis LPUSH: the new element becomes the head of the list.
LPush(list, x) == <<x>> \o list

\* A pop at the wrong end of the list (LPOP): the newest payload comes first.
RPopAtHead(list) ==
  IF list = <<>> THEN [item |-> None, rest |-> list]
  ELSE [item |-> Head(list), rest |-> Tail(list)]

\* A read of the tail that leaves it in the list (LINDEX -1).
RPopKeepsItem(list) ==
  IF list = <<>> THEN [item |-> None, rest |-> list]
  ELSE [item |-> list[Len(list)], rest |-> list]

\* Redis RPOP: removes and returns the tail of the list, nil on an empty list.
RPop(list) ==
  IF list = <<>> THEN [item |-> None, rest |-> list]
  ELSE [item |-> list[Len(list)], rest |-> SubSeq(list, 1, Len(list) - 1)]

\* ------------------------------------------------------------------ Init
Viewers == 1..MaxViewers

\* The worker processes of a pool that drains one queue, each as run starts
\* it: at the top of the loop, with no batch; b counts its batches.
PoolWorkers == {"worker-1", "worker-2"}
Idle == [pc |-> "poll", batch |-> <<>>, b |-> 0]

\* The provider's methods Completions.create and AsyncCompletions.create, and
\* the module openai_patch as it is imported: nothing saved, nothing patched.
TrueCreate == [fn |-> "Completions.create"]
TrueACreate == [fn |-> "AsyncCompletions.create"]
Unpatched ==
  [original_create |-> None, original_acreate |-> None,
   tracker_instance |-> None, create |-> TrueCreate, acreate |-> TrueACreate,
   n |-> 0, stack |-> 0, op |-> None]

\* Everything but the table: queues, caches, worker, bus and histories as
\* they are when the processes have started.
ProcessInit ==
  /\ pool = [w \in PoolWorkers |-> Idle]
  /\ taken = <<>>
  /\ patch = Unpatched
  /\ recent = None
  /\ active_connections = <<>>
  /\ sockets = [v \in Viewers |-> "none"]
  /\ bc = None
  /\ sdk = None
  /\ queue = <<>>
  /\ dlq = <<>>
  /\ tenantCache = FALSE
  /\ projectCache = FALSE
  /\ pc = "poll"
  /\ events_to_process = <<>>
  /\ idx = 1
  /\ retry_count = 0
  /\ db_active = TRUE
  /\ nEnq = 0
  /\ nPopped = 0
  /\ accepted = {}
  /\ resp = None
  /\ popped = <<>>
  /\ popStart = 0
  /\ popAvail = 0
  /\ fates = <<>>
  /\ last = None
  /\ attempts = 0
  /\ backoffs = <<>>
  /\ errors = <<>>
  /\ blocked = FALSE
  /\ dlq0 = 0
  /\ running = TRUE
  /\ shutdown = FALSE
  /\ bresp = None
  /\ rejected = None
  /\ broadcast = None

PipelineInit ==
  /\ store = {}
  /\ ProcessInit

Init ==
  /\ PipelineInit
  /\ req = None
  /\ event_data = None
  /\ row = None

\* Whether the broker, or the database, answers one call. Each call of an
\* action draws its own answer: an outage can begin and end between any two
\* calls.
Reachable == BOOLEAN

\* A step that answers no batch request, rejects no request and broadcasts
\* nothing.
OnlyResp ==
  /\ bresp' = None
  /\ rejected' = None
  /\ broadcast' = None
  /\ UNCHANGED <<fieldVars, recent, busVars, sdk, sideVars>>

\* ---------------------------------------------------------- other producers
\* The item a producer appends: the payload string and, for the properties,
\* its arrival number.
Item(body) == [seq |-> nEnq + 1, body |-> body]

\* Another producer writes a payload straight into the primary queue: the
\* bytes "{not-json", or a well-formed event carrying an id ingest issued.
SeedBodies ==
  {Garbage} \cup {JsonDumps([id |-> i, time |-> IsoFormat(t)]) :
                     i \in accepted, t \in Times}

SeedQueue ==
  /\ nEnq < MaxEnq
  /\ \E body \in SeedBodies :
       /\ queue' = LPush(queue, Item(body))
       /\ nEnq' = nEnq + 1
  /\ resp' = None
  /\ OnlyResp
  /\ UNCHANGED lifeVars
  /\ UNCHANGED <<dlq, store, cacheVars, workerVars, nPopped, accepted, batchHist>>

\* ------------------------------------------------------- ingest endpoint
\* get_current_tenant: the cached tenant, else one query of the database.
GetCurrentTenant(cache, up) ==
  IF cache THEN [ok |-> TRUE, cache |-> TRUE, queries |-> 0]
  ELSE IF up THEN [ok |-> TRUE, cache |-> TRUE, queries |-> 1]
  ELSE [ok |-> FALSE, cache |-> FALSE, queries |-> 1]

\* get_current_project: the cached project, else one query of the database.
GetCurrentProject(cache, up) ==
  IF cache THEN [ok |-> TRUE, cache |-> TRUE, queries |-> 0]
  ELSE IF up THEN [ok |-> TRUE, cache |-> TRUE, queries |-> 1]
  ELSE [ok |-> FALSE, cache |-> FALSE, queries |-> 1]

\* datetime.now(timezone.utc), or the time the request carries.
Now == "t1"

\* uuid.uuid4(): an id no earlier payload carries.
Uuid4 == nEnq + 1

\* A queue_event that swallows the broker's error and returns the id anyway.
QueueEventSwallowsError(q, up, t) ==
  LET doc == [id |-> UuidStr(Uuid4), time |-> IsoFormat(t)]
  IN  [ok |-> TRUE,
       queue |-> IF up THEN LPush(q, Item(JsonDumps(doc))) ELSE q,
       id |-> doc.id]

\* EventService.queue_event: fills id (EventRequest has no id field, so the
\* dict never carries one) and time, serialises, LPUSHes, returns the id.
QueueEvent(q, up, t) ==
  LET doc == [id |-> UuidStr(Uuid4), time |-> IsoFormat(t)]
  IN  IF up
      THEN [ok |-> TRUE, queue |-> LPush(q, Item(JsonDumps(doc))), id |-> doc.id]
      ELSE [ok |-> FALSE, queue |-> q, id |-> None]

\* ingest_event's answer when its dependencies resolved: accepted with the id,
\* or the HTTPException(500) of the except clause.
IngestResponse(r) ==
  IF r.ok THEN [status |-> 200, body |-> "accepted", event_id |-> r.id]
  ELSE [status |-> 500, body |-> "Failed to queue event", event_id |-> None]

\* POST /events/ingest with a valid body and the right API key.
IngestEvent ==
  /\ nEnq < MaxEnq
  /\ \E t \in {Now}, storeUp \in Reachable, brokerUp \in Reachable :
       LET ten == GetCurrentTenant(tenantCache, storeUp)
           prj == GetCurrentProject(projectCache, storeUp)
           env == [storeUp |-> storeUp, brokerUp |-> brokerUp,
                   cached |-> tenantCache /\ projectCache]
       IN  IF ~ten.ok \/ ~prj.ok
           THEN \* the dependency raises: the framework answers 500
             /\ tenantCache' = ten.cache
             /\ projectCache' = IF ten.ok THEN prj.cache ELSE projectCache
             /\ resp' = [status |-> 500, body |-> "Internal Server Error",
                         event_id |-> None, env |-> env, grew |-> 0,
                         queries |-> IF ten.ok THEN ten.queries + prj.queries
                                     ELSE ten.queries]
             /\ UNCHANGED <<queue, nEnq, accepted>>
           ELSE
             LET r == QueueEvent(queue, brokerUp, t)
                 a == IngestResponse(r)
             IN  /\ tenantCache' = ten.cache
                 /\ projectCache' = prj.cache
                 /\ queue' = r.queue
                 /\ nEnq' = IF r.ok THEN nEnq + 1 ELSE nEnq
                 /\ accepted' = IF a.status = 200 THEN accepted \cup {a.event_id}
                                ELSE accepted
                 /\ resp' = [status |-> a.status, body |-> a.body,
                             event_id |-> a.event_id, env |-> env,
                             grew |-> Len(r.queue) - Len(queue),
                             queries |-> ten.queries + prj.queries]
  /\ OnlyResp
  /\ UNCHANGED <<dlq, store, workerVars, lifeVars, nPopped, batchHist>>

\* ------------------------------------------------------ request validation
\* The fields EventRequest declares without a default.
RequiredFields ==
  {"model", "provider", "tokens_prompt", "tokens_completion", "latency_ms"}

\* An event body, by what it does to each required field: a value of the
\* field's type ("valid"), the field left out ("missing"), or a value the type
\* does not take ("malformed").
ValidEvent == [f \in RequiredFields |-> "valid"]

InvalidEvents ==
  {[ValidEvent EXCEPT ![f] = d] :
     f \in RequiredFields, d \in {"missing", "malformed"}}

\* EventRequest: pydantic validates every required field.
EventRequestValid(e) == \A f \in RequiredFields : e[f] = "valid"

\* BatchIngestRequest: min_length=1, max_length on events, each an EventRequest.
BatchIngestRequestValid(events) ==
  /\ Len(events) >= 1
  /\ Len(events) <= MaxBatchLen
  /\ \A k \in 1..Len(events) : EventRequestValid(events[k])

\* The batch requests clients send: lists of valid events of every length up
\* to MaxBatchLen + 1, the empty list included, and lists of an accepted length
\* with one invalid event at any position.
BatchOf(n, j) ==
  [k \in 1..n |-> IF k = j THEN [ValidEvent EXCEPT !["tokens_prompt"] = "malformed"]
                  ELSE ValidEvent]

BatchRequests ==
  {BatchOf(n, 0) : n \in 0..(MaxBatchLen + 1)}
    \cup {BatchOf(n, j) : n \in 1..MaxBatchLen, j \in 1..MaxBatchLen}

\* What happens before the body of an endpoint runs: the dependencies are
\* called first, and an exception of theirs is answered 500; the request body
\* is validated after them, and a body that fails is answered 422 by the
\* framework (the application installs no handler for RequestValidationError).
Preamble(storeUp, valid) ==
  LET ten == GetCurrentTenant(tenantCache, storeUp)
      prj == GetCurrentProject(projectCache, storeUp)
  IN  [tenantCache |-> ten.cache,
       projectCache |-> IF ten.ok THEN prj.cache ELSE projectCache,
       status |-> IF ~ten.ok \/ ~prj.ok THEN 500
                  ELSE IF ~valid THEN 422 ELSE 200]

\* POST /events/ingest with the right API key and a body that is not an
\* EventRequest: ingest_event is never called. Clients send requests while
\* fewer than MaxEnq payloads were appended to the queue.
IngestEventInvalid ==
  /\ nEnq < MaxEnq
  /\ UNCHANGED <<dataVars, workerVars, lifeVars, nEnq, nPopped, accepted,
                 batchHist, fieldVars,
                 recent, busVars, sdk, sideVars>>
  /\ \E e \in InvalidEvents, storeUp \in Reachable :
       LET pre == Preamble(storeUp, EventRequestValid(e))
       IN  /\ tenantCache' = pre.tenantCache
           /\ projectCache' = pre.projectCache
           /\ rejected' = [endpoint |-> "ingest", status |-> pre.status,
                           grew |-> Len(queue') - Len(queue)]
  /\ resp' = None
  /\ bresp' = None
  /\ broadcast' = None

\* ------------------------------------------------------ batch ingest endpoint
\* EventService.queue_event for the k-th payload appended since the request
\* began: as QueueEvent, with the k-th new id.
QueueEventNth(q, up, t, k) ==
  LET doc == [id |-> UuidStr(nEnq + k), time |-> IsoFormat(t)]
      item == [seq |-> nEnq + k, body |-> JsonDumps(doc)]
  IN  IF up
      THEN [ok |-> TRUE, queue |-> LPush(q, item), id |-> doc.id]
      ELSE [ok |-> FALSE, queue |-> q, id |-> None]

\* A loop that skips the event whose enqueue failed and goes on with the rest.
RECURSIVE QueueBatchKeepsGoing(_, _, _, _, _)
QueueBatchKeepsGoing(q, n, failAt, t, k) ==
  IF k > n THEN [ok |-> failAt = 0, queue |-> q, event_ids |-> <<>>, tried |-> n]
  ELSE LET r == QueueEventNth(q, k # failAt, t, k)
           rest == QueueBatchKeepsGoing(r.queue, n, failAt, t, k + 1)
       IN  [ok |-> rest.ok, queue |-> rest.queue, tried |-> n,
            event_ids |-> IF r.ok THEN <<r.id>> \o rest.event_ids
                          ELSE rest.event_ids]

\* ingest_events_batch: the for loop over request.events from the k-th event
\* on, the failAt-th queue_event raising (0: none does). The loop ends at the
\* first exception; event_ids holds the ids of the events enqueued before it.
RECURSIVE QueueBatch(_, _, _, _, _)
QueueBatch(q, n, failAt, t, k) ==
  IF k > n THEN [ok |-> TRUE, queue |-> q, event_ids |-> <<>>, tried |-> n]
  ELSE LET r == QueueEventNth(q, k # failAt, t, k)
       IN  IF ~r.ok
           THEN [ok |-> FALSE, queue |-> q, event_ids |-> <<>>, tried |-> k]
           ELSE LET rest == QueueBatch(r.queue, n, failAt, t, k + 1)
                IN  [ok |-> rest.ok, queue |-> rest.queue, tried |-> rest.tried,
                     event_ids |-> <<r.id>> \o rest.event_ids]

\* ingest_events_batch's answer: BatchIngestResponse, or the HTTPException(500)
\* of the except clause.
BatchIngestResponse(r) ==
  IF r.ok
  THEN [status |-> 200, body |-> "accepted", count |-> Len(r.event_ids),
        event_ids |-> r.event_ids]
  ELSE [status |-> 500, body |-> "Failed to queue events", count |-> 0,
        event_ids |-> <<>>]

\* The set of the elements of a sequence.
Range(seq) == {seq[k] : k \in 1..Len(seq)}

\* POST /events/ingest/batch with the right API key.
IngestEventsBatch ==
  /\ nEnq < MaxEnq
  /\ \E events \in BatchRequests, storeUp \in Reachable,
        failAt \in 0..MaxBatchLen :
       LET valid == BatchIngestRequestValid(events)
           n == Len(events)
           pre == Preamble(storeUp, valid)
           env == [failAt |-> failAt, cached |-> tenantCache /\ projectCache]
       IN  /\ valid => nEnq + n <= MaxEnq
           /\ failAt <= (IF valid THEN n ELSE 0)
           /\ tenantCache' = pre.tenantCache
           /\ projectCache' = pre.projectCache
           /\ IF ~valid
              THEN /\ UNCHANGED <<queue, nEnq, accepted>>
                   /\ rejected' = [endpoint |-> "batch", status |-> pre.status,
                                   grew |-> Len(queue') - Len(queue)]
                   /\ bresp' = None
              ELSE IF pre.status # 200
              THEN \* a dependency raised: the framework answers 500
                   /\ bresp' = [status |-> 500, body |-> "Internal Server Error",
                                count |-> 0, event_ids |-> <<>>, n |-> n,
                                env |-> env, tried |-> 0, first |-> nEnq + 1,
                                grew |-> 0]
                   /\ rejected' = None
                   /\ UNCHANGED <<queue, nEnq, accepted>>
              ELSE LET r == QueueBatch(queue, n, failAt, Now, 1)
                       a == BatchIngestResponse(r)
                   IN  /\ queue' = r.queue
                       /\ nEnq' = nEnq + (Len(r.queue) - Len(queue))
                       /\ accepted' = accepted \cup Range(a.event_ids)
                       /\ bresp' = [status |-> a.status, body |-> a.body,
                                    count |-> a.count,
                                    event_ids |-> a.event_ids, n |-> n,
                                    env |-> env, tried |-> r.tried,
                                    first |-> nEnq + 1,
                                    grew |-> Len(r.queue) - Len(queue)]
                       /\ rejected' = None
  /\ resp' = None
  /\ broadcast' = None
  /\ UNCHANGED <<dlq, store, workerVars, lifeVars, nPopped, batchHist,
                 fieldVars, recent, busVars, sdk, sideVars>>

\* ------------------------------------------------------------ event store
\* The row store_event builds from the parsed payload.
Row(doc) == [id |-> UUID(doc.id), time |-> FromIsoFormat(doc.time)]

\* The keys of a payload that are columns of llm_events, and a payload the
\* table can hold: every key is a column and time, which is NOT NULL and has
\* no default, is there.
EventKeys == {"id", "time"}
Writable(doc) == DOMAIN doc \subseteq EventKeys /\ "time" \in DOMAIN doc

\* The table takes the row: the database answers, the payload can be held and
\* no row has its primary key (id, time).
StoreAccepts(rows, up, doc) ==
  /\ up
  /\ Writable(doc)
  /\ ~\E r \in rows : r.id = Row(doc).id /\ r.time = Row(doc).time

\* EventService.store_event: converts id and time, db.add, db.commit. The
\* flush of the commit raises when the database is unreachable
\* (OperationalError) and when the primary key exists (IntegrityError), and
\* leaves the session's transaction inactive; store_event never calls
\* db.rollback(), and on an inactive transaction commit raises
\* PendingRollbackError without reaching the database. LLMEvent(**event_data)
\* raises TypeError for a key that is no column, before the session is used;
\* a row without time violates NOT NULL at the flush (IntegrityError).
StoreEvent(rows, up, active, doc) ==
  IF ~(DOMAIN doc \subseteq EventKeys)
  THEN [ok |-> FALSE, rows |-> rows, active |-> active,
        error |-> "TypeError"]
  ELSE IF ~active
  THEN [ok |-> FALSE, rows |-> rows, active |-> FALSE,
        error |-> "PendingRollbackError"]
  ELSE IF ~up
  THEN [ok |-> FALSE, rows |-> rows, active |-> FALSE,
        error |-> "OperationalError"]
  ELSE IF ~StoreAccepts(rows, up, doc)
  THEN [ok |-> FALSE, rows |-> rows, active |-> FALSE,
        error |-> "IntegrityError"]
  ELSE [ok |-> TRUE, rows |-> rows \cup {Row(doc)}, active |-> TRUE,
        error |-> "none"]

\* ----------------------------------------------------------------- worker
\* EventProcessor.send_to_dlq: LPUSH of the wrapped payload; an exception of
\* the push is caught and logged, and the caller sees nothing.
SendToDlq(list, up, event_json, error, event_id) ==
  IF up
  THEN LPush(list, JsonDumps([event |-> event_json, error |-> error,
                              timestamp |-> IsoFormat(Now),
                              event_id |-> event_id]))
  ELSE list

\* The history of the previous batch is dropped when the loop turns again.
ForgetBatch ==
  /\ popped' = <<>>
  /\ popStart' = 0
  /\ popAvail' = 0
  /\ fates' = <<>>
  /\ last' = None
  /\ UNCHANGED <<attempts, backoffs, errors, blocked, dlq0>>

\* An except clause that logs the exception and leaves the loop.
ExceptExceptionExits == "stopped"

\* run: where except Exception leaves the worker: it logs, sleeps 1 s and goes
\* round the loop again; self.running is not touched.
ExceptException == "errsleep"

\* run: one turn of the while loop, from the test of self.running up to the
\* call of process_batch.
Poll ==
  /\ pc = "poll"
  /\ \E brokerUp \in Reachable :
       IF ~running
       THEN \* while self.running is false: the loop is left, Redis is closed
         /\ pc' = "stopped"
         /\ UNCHANGED batchHist
       ELSE IF ~brokerUp
       THEN \* llen raises; except Exception logs and sleeps 1 s
         /\ pc' = ExceptException
         /\ ForgetBatch
       ELSE IF Len(queue) > 0
       THEN /\ pc' = "pop"
            /\ popped' = <<>>
            /\ popStart' = Len(queue)
            /\ popAvail' = 0
            /\ fates' = <<>>
            /\ last' = None
            /\ UNCHANGED <<attempts, backoffs, errors, blocked, dlq0>>
       ELSE /\ pc' = "idle"
            /\ ForgetBatch
  /\ resp' = None
  /\ OnlyResp
  /\ UNCHANGED lifeVars
  /\ UNCHANGED <<dataVars, cacheVars, events_to_process, idx, retry_count,
                 db_active, nEnq, nPopped, accepted>>

\* run: asyncio.sleep(worker_poll_interval) or asyncio.sleep(1) is over.
Wake ==
  /\ pc \in {"idle", "errsleep"}
  /\ pc' = "poll"
  /\ ForgetBatch
  /\ resp' = None
  /\ OnlyResp
  /\ UNCHANGED lifeVars
  /\ UNCHANGED <<dataVars, cacheVars, events_to_process, idx, retry_count,
                 db_active, nEnq, nPopped, accepted>>

\* The loop position after the pop loop: process_batch returns at once, or
\* db = SessionLocal() (a new session, no connection yet) and the for loop
\* over the batch begins.
AfterPop(batch) == IF batch = <<>> THEN "poll" ELSE "process"

\* process_batch: one rpop of the pop loop.
Pop ==
  /\ pc = "pop"
  /\ \E brokerUp \in Reachable :
       IF ~brokerUp
       THEN \* rpop raises out of process_batch; run logs and sleeps 1 s
         /\ pc' = ExceptException
         /\ events_to_process' = <<>>
         /\ UNCHANGED <<queue, nPopped, batchHist>>
       ELSE
         LET r == RPop(queue)
             batch == IF r.item = None THEN events_to_process
                      ELSE Append(events_to_process, r.item)
             over == r.item = None \/ Len(batch) = BatchSize
         IN  /\ queue' = r.rest
             /\ events_to_process' = batch
             /\ nPopped' = IF r.item = None THEN nPopped ELSE nPopped + 1
             /\ popped' = IF r.item = None THEN popped ELSE Append(popped, r.item)
             /\ pc' = IF over THEN AfterPop(batch) ELSE "pop"
             /\ popAvail' = IF over THEN Len(batch) + Len(r.rest) ELSE popAvail
             /\ attempts' = 0
             /\ backoffs' = <<>>
             /\ errors' = <<>>
             /\ blocked' = FALSE
             /\ dlq0' = Len(dlq)
             /\ UNCHANGED <<popStart, fates, last>>
  /\ resp' = None
  /\ OnlyResp
  /\ UNCHANGED lifeVars
  /\ UNCHANGED <<dlq, store, cacheVars, idx, retry_count, db_active, nEnq,
                 accepted>>

\* A batch loop that the error of a rejected DLQ push reaches: the exception
\* leaves process_batch, the rest of the batch is dropped, run logs and sleeps.
NextEventRaisesOnLost(fate, att, errs, blk, newDlq, act) ==
  /\ fates' = Append(fates, fate)
  /\ last' = [attempts |-> att, backoffs |-> backoffs, errors |-> errs,
              blocked |-> blk, dlq0 |-> dlq0, dlq1 |-> Len(newDlq)]
  /\ attempts' = 0
  /\ backoffs' = <<>>
  /\ errors' = <<>>
  /\ blocked' = FALSE
  /\ dlq0' = Len(newDlq)
  /\ retry_count' = 0
  /\ IF fate = "lost"
     THEN /\ pc' = "errsleep"
          /\ idx' = 1
          /\ events_to_process' = <<>>
          /\ db_active' = TRUE
     ELSE IF idx = Len(events_to_process)
     THEN /\ pc' = "poll"
          /\ idx' = 1
          /\ events_to_process' = <<>>
          /\ db_active' = TRUE
     ELSE /\ pc' = "process"
          /\ idx' = idx + 1
          /\ db_active' = act
          /\ UNCHANGED events_to_process

\* process_batch: process_single_event returned for the payload at idx after
\* att store writes that raised errs (blk: one of them though the table would
\* have taken the row), leaving the DLQ as newDlq and the session's transaction
\* active or not (act). The for loop moves on with the same session; after the
\* last payload db.close() and return, and the next batch gets a new session.
NextEvent(fate, att, errs, blk, newDlq, act) ==
  /\ fates' = Append(fates, fate)
  /\ last' = [attempts |-> att, backoffs |-> backoffs, errors |-> errs,
              blocked |-> blk, dlq0 |-> dlq0, dlq1 |-> Len(newDlq)]
  /\ attempts' = 0
  /\ backoffs' = <<>>
  /\ errors' = <<>>
  /\ blocked' = FALSE
  /\ dlq0' = Len(newDlq)
  /\ retry_count' = 0
  /\ IF idx = Len(events_to_process)
     THEN /\ pc' = "poll"
          /\ idx' = 1
          /\ events_to_process' = <<>>
          /\ db_active' = TRUE
     ELSE /\ pc' = "process"
          /\ idx' = idx + 1
          /\ db_active' = act
          /\ UNCHANGED events_to_process

\* A retry test that lets one attempt too many through.
ShouldRetryOnceMore(rc) == rc <= MaxRetries

\* process_single_event: whether a failed write is tried again.
ShouldRetry(rc) == rc < MaxRetries

\* An event_id that is never taken from the payload.
EventIdNeverSet(doc) == Unknown

\* process_single_event: event_id is "unknown" until event_data.get("id",
\* "unknown") has returned; get raises AttributeError when the parsed value is
\* no dict.
EventId(doc) == IF IsObject(doc) /\ "id" \in DOMAIN doc THEN doc.id ELSE Unknown

\* process_single_event: one call, for the payload at idx with retry_count.
ProcessSingleEvent ==
  /\ pc = "process"
  /\ \E storeUp \in Reachable, brokerUp \in Reachable :
       LET event_json == events_to_process[idx].body
           parsed == JsonLoads(event_json)
       IN  IF ~parsed.ok
           THEN \* json.JSONDecodeError: straight to the DLQ, return False
             LET newDlq == SendToDlq(dlq, brokerUp, event_json,
                                     "Invalid JSON in queue", Unknown)
             IN  /\ dlq' = newDlq
                 /\ NextEvent(IF newDlq # dlq THEN "dlq" ELSE "lost",
                              attempts, errors, blocked, newDlq, db_active)
                 /\ UNCHANGED store
           ELSE
             LET event_id == EventId(parsed.doc)
                 w == IF IsObject(parsed.doc)
                      THEN StoreEvent(store, storeUp, db_active, parsed.doc)
                      ELSE \* AttributeError, before store_event is called
                        [ok |-> FALSE, rows |-> store, active |-> db_active,
                         error |-> "AttributeError"]
                 att == IF IsObject(parsed.doc) THEN attempts + 1 ELSE attempts
                 blk == blocked \/ (/\ ~w.ok
                                    /\ IsObject(parsed.doc)
                                    /\ StoreAccepts(store, storeUp, parsed.doc))
             IN  IF w.ok
                 THEN \* return True
                   /\ store' = w.rows
                   /\ NextEvent("stored", att, errors, blocked, dlq,
                                w.active)
                   /\ UNCHANGED dlq
                 ELSE IF ShouldRetry(retry_count)
                 THEN \* asyncio.sleep(backoff_base ** retry_count)
                   /\ pc' = "backoff"
                   /\ attempts' = att
                   /\ backoffs' = Append(backoffs, Pow(BackoffBase, retry_count))
                   /\ errors' = Append(errors, w.error)
                   /\ blocked' = blk
                   /\ db_active' = w.active
                   /\ UNCHANGED <<dlq, store, events_to_process, idx,
                                  retry_count, fates, last, dlq0>>
                 ELSE \* max retries exceeded: to the DLQ, return False
                   LET newDlq == SendToDlq(dlq, brokerUp, event_json,
                                           "Failed to process event", event_id)
                   IN  /\ dlq' = newDlq
                       /\ NextEvent(IF newDlq # dlq THEN "dlq" ELSE "lost",
                                    att, Append(errors, w.error),
                                    blk, newDlq, w.active)
                       /\ UNCHANGED store
  /\ resp' = None
  /\ OnlyResp
  /\ UNCHANGED lifeVars
  /\ UNCHANGED <<queue, cacheVars, nEnq, nPopped, accepted,
                 popped, popStart, popAvail>>

\* process_single_event: the sleep is over, the recursive call begins.
Backoff ==
  /\ pc = "backoff"
  /\ pc' = "process"
  /\ retry_count' = retry_count + 1
  /\ resp' = None
  /\ OnlyResp
  /\ UNCHANGED lifeVars
  /\ UNCHANGED <<dataVars, cacheVars, events_to_process, idx, db_active,
                 nEnq, nPopped, accepted, batchHist>>

\* ------------------------------------------------------------- shutdown
\* EventProcessor.stop: self.running = False. Nothing in the worker process
\* calls it while run is in progress (main calls it after run has ended); it
\* is there for a caller that holds the processor.
Stop ==
  /\ pc # "stopped"
  /\ running
  /\ running' = FALSE
  /\ shutdown' = TRUE
  /\ resp' = None
  /\ OnlyResp
  /\ UNCHANGED <<dataVars, cacheVars, workerVars, nEnq, nPopped, accepted,
                 batchHist>>

\* SIGINT is delivered while run is in progress. The process installs no
\* handler of its own: the main task is cancelled at the await it stands on
\* (CancelledError is not an Exception and passes every except clause of run
\* and process_single_event; process_batch's finally closes the session), or
\* KeyboardInterrupt is raised inside run, whose except KeyboardInterrupt sets
\* running to False and breaks. Either way run ends where it stands and the
\* payloads of events_to_process not yet processed are gone.
Interrupt ==
  /\ pc # "stopped"
  /\ pc' = "stopped"
  /\ events_to_process' = <<>>
  /\ idx' = 1
  /\ retry_count' = 0
  /\ db_active' = TRUE
  /\ running' \in {running, FALSE}
  /\ shutdown' = TRUE
  /\ resp' = None
  /\ OnlyResp
  /\ UNCHANGED <<dataVars, cacheVars, nEnq, nPopped, accepted, batchHist>>

\* ---------------------------------------------------------- live update bus
\* notify_event_update: manager.broadcast of one event_update message.
NotifyEventUpdate == [type |-> "event_update"]

\* POST /api/v1/chat, the one caller of notify_event_update: the model call,
\* queue_event of the event that records it, then the broadcast; when the model
\* call or the queue_event raises, queue_event of an error event (an exception
\* of which is passed over) and no broadcast.
Chat ==
  /\ nEnq < MaxEnq
  /\ tenantCache /\ projectCache
  /\ \E llmOk \in BOOLEAN, brokerUp \in Reachable, brokerUpAgain \in Reachable :
       LET r == QueueEventNth(queue, brokerUp, Now, 1)
           e == QueueEventNth(queue, brokerUpAgain, Now, 1)
       IN  IF llmOk /\ r.ok
           THEN /\ queue' = r.queue
                /\ nEnq' = nEnq + 1
                /\ broadcast' = NotifyEventUpdate
           ELSE /\ queue' = e.queue
                /\ nEnq' = IF e.ok THEN nEnq + 1 ELSE nEnq
                /\ broadcast' = None
  /\ resp' = None
  /\ bresp' = None
  /\ rejected' = None
  /\ UNCHANGED <<dlq, store, cacheVars, workerVars, lifeVars, nPopped,
                 accepted, batchHist, fieldVars,
                 recent, busVars, sdk, sideVars>>

\* ------------------------------------------- one event, field by field
\* A dict key that is not there (a field the client did not set), and a value.
\* JSON null and Python None are None.
Absent == [absent |-> TRUE]
Val(x) == [v |-> x]

\* The fields followed. model, tokens_prompt and tokens_completion are
\* required; the others are Optional or have a default.
Fields ==
  {"tenant_id", "project_id", "model", "tokens_prompt", "tokens_completion",
   "tokens_total", "cost_usd", "status", "has_error", "metadata"}

\* settings.default_tenant_id and settings.default_project_id: the ids of the
\* tenant and the project get_current_tenant and get_current_project return.
DefaultTenantId == "default-tenant"
DefaultProjectId == "default-project"

\* The requests clients send, all of them valid EventRequests; id is a key
\* of the JSON body, which EventRequest does not declare. Money is counted
\* in units of 0.0000001 USD.
ClientId == 7
Requests ==
  [id : {Absent, Val(UuidStr(ClientId))},
   time : {Absent, None, Val("t2")},
   tenant_id : {Absent, Val("other-tenant")},
   project_id : {Absent, Val("other-project")},
   model : {Val("gpt-4"), Val("gpt-3.5-turbo"), Val("my-model")},
   tokens_prompt : {Val(1), Val(2)},
   tokens_completion : {Val(1)},
   tokens_total : {Absent, None, Val(3), Val(7)},
   cost_usd : {Absent, None, Val(10)},
   status : {Absent, Val("success"), Val("error")},
   has_error : {Absent, Val(TRUE), Val(FALSE)},
   metadata : {Absent, Val("m")}]

\* calculate_cost's pricing table, per token, and the models it names.
Pricing ==
  [m \in {"gpt-4", "gpt-3.5-turbo"} |->
     IF m = "gpt-4" THEN [prompt |-> 300, completion |-> 600]
     ELSE [prompt |-> 15, completion |-> 20]]

\* A pricing step that charges an unknown model at the gpt-4 rate.
CalculateCostNoFreeModel(model, prompt_tokens, completion_tokens) ==
  LET model_pricing == IF model \in DOMAIN Pricing THEN Pricing[model]
                       ELSE Pricing["gpt-4"]
  IN  prompt_tokens * model_pricing.prompt
        + completion_tokens * model_pricing.completion

\* calculate_cost: pricing.get(model, {"prompt": 0, "completion": 0}).
CalculateCost(model, prompt_tokens, completion_tokens) ==
  LET model_pricing == IF model \in DOMAIN Pricing THEN Pricing[model]
                       ELSE [prompt |-> 0, completion |-> 0]
  IN  prompt_tokens * model_pricing.prompt
        + completion_tokens * model_pricing.completion

\* An ingest that keeps the tenant_id and project_id the client set.
EventDataKeepsClientScope(r) ==
  [r EXCEPT !.id = Absent,
            !.tenant_id = IF r.tenant_id = Absent THEN Val(DefaultTenantId)
                          ELSE r.tenant_id,
            !.project_id = IF r.project_id = Absent THEN Val(DefaultProjectId)
                           ELSE r.project_id,
            !.tokens_total =
     IF r.tokens_total = Absent \/ r.tokens_total = None
     THEN Val(r.tokens_prompt.v + r.tokens_completion.v)
     ELSE r.tokens_total]

\* ingest_event: model_dump(exclude_unset=True) keeps the fields the client
\* set that EventRequest declares (id is not one: the key is ignored);
\* tenant_id and project_id are overwritten with str(tenant.id) and
\* str(project.id); tokens_total is filled in when it is not there or null.
EventData(r) ==
  [r EXCEPT !.id = Absent,
            !.tenant_id = Val(DefaultTenantId),
            !.project_id = Val(DefaultProjectId),
            !.tokens_total =
     IF r.tokens_total = Absent \/ r.tokens_total = None
     THEN Val(r.tokens_prompt.v + r.tokens_completion.v)
     ELSE r.tokens_total]

\* ingest_events_batch: the same per event, with event_data.get.
BatchEventData(r) ==
  [r EXCEPT !.id = Absent,
            !.tenant_id = Val(DefaultTenantId),
            !.project_id = Val(DefaultProjectId),
            !.tokens_total =
     IF (IF r.tokens_total = Absent THEN None ELSE r.tokens_total) = None
     THEN Val(r.tokens_prompt.v + r.tokens_completion.v)
     ELSE r.tokens_total]

\* EventService.queue_event: cost_usd is computed when it is not there or
\* null; id is a fresh uuid4 when the dict has no id key; time is the
\* current time when it is not there or null, and is written in ISO format;
\* every other field followed is left as it is.
QueueEventData(d) ==
  [d EXCEPT !.cost_usd =
     IF d.cost_usd = Absent \/ d.cost_usd = None
     THEN Val(CalculateCost(d.model.v, d.tokens_prompt.v, d.tokens_completion.v))
     ELSE d.cost_usd,
            !.id = IF d.id = Absent THEN Val(UuidStr(Uuid4)) ELSE d.id,
            !.time =
     IF d.time = Absent \/ d.time = None THEN Val(IsoFormat(Now))
     ELSE Val(IsoFormat(d.time.v))]

\* The columns of llm_events among the fields followed (there is no metadata
\* column) and the value a column gets when the insert names none.
Columns == Fields \ {"metadata"}
ColumnDefault(f) == IF f = "has_error" THEN Val(FALSE) ELSE None

\* DECIMAL(10, 6): the database rounds to six decimal places.
Decimal6(x) == ((x + 5) \div 10) * 10

\* EventService.store_event: LLMEvent(**event_data), db.add, db.commit,
\* db.refresh. A key that is a column is written, cost_usd at the column's
\* scale; a column the dict does not name gets its default; the metadata key
\* sets a plain attribute of the object (LLMEvent.metadata is the table
\* registry of the declarative base) and is not written.
LLMEventRow(d) ==
  [f \in Columns |->
     IF d[f] = Absent THEN ColumnDefault(f)
     ELSE IF f = "cost_usd" /\ d[f] # None THEN Val(Decimal6(d[f].v))
     ELSE d[f]]

FieldInit ==
  /\ PipelineInit
  /\ req \in Requests
  /\ event_data = None
  /\ row = None

\* The request is answered accepted: its payload is on the queue.
IngestFields ==
  /\ req # None
  /\ event_data = None
  /\ \E d \in {EventData(req), BatchEventData(req)} :
       event_data' = QueueEventData(d)
  /\ UNCHANGED <<dataVars, cacheVars, workerVars, lifeVars, nEnq, nPopped,
                 accepted, resp, batchHist, bresp, rejected, broadcast,
                 req, row, recent, busVars, sdk, sideVars>>

\* The worker parses the payload and store_event commits it.
StoreFields ==
  /\ event_data # None
  /\ row = None
  /\ JsonLoads(JsonDumps(event_data)).ok
  /\ row' = LLMEventRow(JsonLoads(JsonDumps(event_data)).doc)
  /\ UNCHANGED <<dataVars, cacheVars, workerVars, lifeVars, nEnq, nPopped,
                 accepted, resp, batchHist, bresp, rejected, broadcast,
                 req, event_data, recent, busVars, sdk, sideVars>>

FieldNext == IngestFields \/ StoreFields

FieldSpec == FieldInit /\ [][FieldNext]_vars

\* ------------------------------------------------------------------ Spec
\* ------------------------------------------------------------ API key gate
\* settings.single_tenant_mode, settings.require_auth and settings.api_key.
SingleTenantMode == TRUE
RequireAuth == TRUE
ApiKey == "llmscope-local-key"

\* The X-API-Key headers of requests that do not carry the configured key:
\* no header, an empty one, another key.
BadKeys == {None, Val(""), Val("wrong-key")}

\* get_api_key: 401 for a missing (or empty) and for a mismatched key when
\* authentication is required.
GetApiKey(x_api_key) ==
  IF SingleTenantMode /\ RequireAuth
  THEN IF x_api_key = None \/ x_api_key = Val("")
       THEN [ok |-> FALSE, status |-> 401, detail |-> "API key required"]
       ELSE IF x_api_key # Val(ApiKey)
       THEN [ok |-> FALSE, status |-> 401, detail |-> "Invalid API key"]
       ELSE [ok |-> TRUE, status |-> 200, detail |-> "none"]
  ELSE IF SingleTenantMode /\ ~RequireAuth
  THEN [ok |-> TRUE, status |-> 200, detail |-> "none"]
  ELSE IF x_api_key = None \/ x_api_key = Val("")
  THEN [ok |-> FALSE, status |-> 401, detail |-> "API key required"]
  ELSE [ok |-> TRUE, status |-> 200, detail |-> "none"]

\* The four endpoints behind get_current_tenant and the bodies a request to
\* them carries: the POST endpoints declare a body, the GET endpoints none.
Endpoints == {"ingest", "batch", "recent", "stats"}
BodiesOf(endpoint) ==
  IF endpoint \in {"ingest", "batch"} THEN {"valid", "invalid", "malformed"}
  ELSE {"none"}

\* The framework's request handler: the bytes of a declared body are parsed
\* as JSON first, a JSONDecodeError is answered 422; then the dependencies are
\* solved, get_api_key before get_current_tenant's body, and an HTTPException
\* of a dependency is the answer; the body is validated after that.
Gate(endpoint, body, x_api_key) ==
  IF body = "malformed" THEN 422
  ELSE GetApiKey(x_api_key).status

\* A request to one of the four endpoints that does not carry the configured
\* key. Neither the handler nor get_current_tenant's body is reached.
Unauthenticated ==
  /\ UNCHANGED <<dataVars, cacheVars, workerVars, lifeVars, nEnq, nPopped,
                 accepted, batchHist, fieldVars,
                 recent, busVars, sdk, sideVars>>
  /\ \E endpoint \in Endpoints, x_api_key \in BadKeys :
       \E body \in BodiesOf(endpoint) :
         rejected' = [endpoint |-> endpoint, x_api_key |-> x_api_key,
                      body |-> body,
                      status |-> Gate(endpoint, body, x_api_key),
                      cached |-> tenantCache /\ projectCache,
                      grew |-> Len(queue') - Len(queue)]
  /\ resp' = None
  /\ bresp' = None
  /\ broadcast' = None

\* ---------------------------------------------------------- events viewer
\* A string uuid.UUID() rejects with ValueError.
NotAUuid == [text |-> "not-a-uuid"]

\* The event_ids lists the viewer page posts.
DeleteRequests ==
  {<<>>, <<NotAUuid>>} \cup {<<UuidStr(i)>> : i \in 1..MaxEnq}
    \cup {<<UuidStr(1), UuidStr(2)>>, <<UuidStr(1), NotAUuid>>}

\* POST /events/delete: every id is converted (400 on the first that is not a
\* UUID), then the rows whose id is in the list are deleted and the delete is
\* committed; an error of the database is answered 500 after a rollback. The
\* endpoint has no dependency: no API key is asked for.
DeleteEventsAnswer(rows, up, event_ids) ==
  IF \E k \in 1..Len(event_ids) : event_ids[k] = NotAUuid
  THEN [status |-> 400, rows |-> rows, deleted_count |-> 0]
  ELSE IF ~up
  THEN [status |-> 500, rows |-> rows, deleted_count |-> 0]
  ELSE LET event_uuids == {UUID(event_ids[k]) : k \in 1..Len(event_ids)}
           gone == {r \in rows : r.id \in event_uuids}
       IN  [status |-> 200, rows |-> rows \ gone,
            deleted_count |-> Cardinality(gone)]

DeleteEvents ==
  /\ \E event_ids \in DeleteRequests, up \in Reachable :
       store' = DeleteEventsAnswer(store, up, event_ids).rows
  /\ resp' = None
  /\ OnlyResp
  /\ UNCHANGED <<queue, dlq, cacheVars, workerVars, lifeVars, nEnq, nPopped,
                 accepted, batchHist>>

\* ------------------------------------------------------------- recent read
\* The order of the instants an event's time can take.
Instant(t) == IF t = "t1" THEN 1 ELSE 2

\* Rows an llm_events table can hold when the service starts: rows of the
\* default tenant and project, and rows of another tenant or project.
TableRows ==
  [id : 1..2, time : Times,
   tenant_id : {DefaultTenantId}, project_id : {DefaultProjectId}]
    \cup [id : {3}, time : Times,
          tenant_id : {"other-tenant"}, project_id : {DefaultProjectId}]
    \cup [id : {3}, time : Times,
          tenant_id : {DefaultTenantId}, project_id : {"other-project"}]

\* order_by(LLMEvent.time.desc()): the rows, newest first; rows of the same
\* time come in an order the database picks.
RECURSIVE OrderByTimeDesc(_)
OrderByTimeDesc(rows) ==
  IF rows = {} THEN {<<>>}
  ELSE UNION {{<<r>> \o rest : rest \in OrderByTimeDesc(rows \ {r})} :
                r \in {n \in rows :
                         \A o \in rows : Instant(o.time) <= Instant(n.time)}}

\* The dictionary get_recent_events returns for a row, among its keys.
RecentDict(r) == [id |-> UuidStr(r.id), time |-> IsoFormat(r.time)]

\* EventService.get_recent_events: filter on tenant_id and project_id,
\* order by time descending, LIMIT limit, every row converted to a
\* dictionary. The results it can give, one per order of equal times.
GetRecentEvents(rows, tenant_id, project_id, limit) ==
  LET scope == {r \in rows : r.tenant_id = tenant_id /\ r.project_id = project_id}
  IN  {[k \in 1..Min(limit, Len(ordered)) |-> RecentDict(ordered[k])] :
         ordered \in OrderByTimeDesc(scope)}

\* The limit query parameters clients send: none, or an integer (the
\* parameter is declared limit: int = 100, no bound on it).
Limits == {Absent} \cup {Val(n) : n \in (0 - 1)..(DefaultLimit + 2)}

\* GET /events/recent with the right API key: the dependencies, then
\* get_recent_events for the default tenant and project; any exception (the
\* database is down, or rejects a negative LIMIT) is answered 500.
RecentEvents ==
  /\ \E l \in Limits, up \in Reachable :
       LET pre == Preamble(up, TRUE)
           limit == IF l = Absent THEN DefaultLimit ELSE l.v
       IN  /\ tenantCache' = pre.tenantCache
           /\ projectCache' = pre.projectCache
           /\ IF pre.status # 200 \/ ~up \/ limit < 0
              THEN recent' = [status |-> 500, limit |-> l, events |-> <<>>,
                              count |-> 0]
              ELSE \E events \in GetRecentEvents(store, DefaultTenantId,
                                                 DefaultProjectId, limit) :
                     recent' = [status |-> 200, limit |-> l,
                                events |-> events, count |-> Len(events)]
  /\ resp' = None
  /\ bresp' = None
  /\ rejected' = None
  /\ broadcast' = None
  /\ UNCHANGED <<dataVars, workerVars, lifeVars, nEnq, nPopped, accepted,
                 batchHist, fieldVars, busVars, sdk, sideVars>>

\* --------------------------------------------------------- live update bus
\* A step of the bus: the pipeline, the read side and the SDK stand still.
BusOnly ==
  UNCHANGED <<dataVars, cacheVars, workerVars, lifeVars, nEnq, nPopped,
              accepted, resp, batchHist, bresp, rejected, broadcast,
              fieldVars, recent, sdk, sideVars>>

\* list.remove: the list without the first occurrence of x.
Remove(list, x) ==
  LET k == CHOOSE j \in 1..Len(list) :
             list[j] = x /\ \A h \in 1..(j - 1) : list[h] # x
  IN  SubSeq(list, 1, k - 1) \o SubSeq(list, k + 1, Len(list))

Registered == {active_connections[k] : k \in 1..Len(active_connections)}

\* A viewer leaves the set of viewers that were registered and reading for
\* the whole of the broadcast in progress.
Without(b, v) ==
  IF b = None THEN b ELSE [b EXCEPT !.stayed = b.stayed \ {v}]

\* events_websocket up to its first receive_text: ConnectionManager.connect
\* accepts the socket and appends it to the list.
Connect ==
  /\ \E v \in Viewers :
       /\ sockets[v] = "none"
       /\ active_connections' = Append(active_connections, v)
       /\ sockets' = [sockets EXCEPT ![v] = "open"]
  /\ UNCHANGED bc
  /\ BusOnly

\* The client stops reading: its connection's send buffer is full, and a
\* send to it waits until the client reads again or the connection ends.
Stall ==
  /\ \E v \in Viewers :
       /\ sockets[v] = "open"
       /\ sockets' = [sockets EXCEPT ![v] = "slow"]
       /\ bc' = Without(bc, v)
  /\ UNCHANGED active_connections
  /\ BusOnly

\* The client closes the connection; the handler has not run yet.
Leave ==
  /\ \E v \in Viewers :
       /\ sockets[v] \in {"open", "slow"}
       /\ sockets' = [sockets EXCEPT ![v] = "gone"]
       /\ bc' = Without(bc, v)
  /\ UNCHANGED active_connections
  /\ BusOnly

\* events_websocket: receive_text raises WebSocketDisconnect and
\* ConnectionManager.disconnect removes the socket from the list.
Disconnect ==
  /\ \E v \in Viewers :
       /\ sockets[v] = "gone"
       /\ active_connections' = Remove(active_connections, v)
       /\ sockets' = [sockets EXCEPT ![v] = "none"]
       /\ bc' = Without(bc, v)
  /\ BusOnly

\* events_websocket: receive_text raises another exception than
\* WebSocketDisconnect (the client sent a binary frame: KeyError 'text'); the
\* handler ends, the connection is closed, the socket stays in the list.
ReceiveFails ==
  /\ \E v \in Viewers :
       /\ sockets[v] \in {"open", "slow"}
       /\ sockets' = [sockets EXCEPT ![v] = "stale"]
       /\ bc' = Without(bc, v)
  /\ UNCHANGED active_connections
  /\ BusOnly

\* notify_event_update calls ConnectionManager.broadcast: the for loop's
\* iterator is at the head of the list. One broadcast is followed at a time.
BroadcastBegin ==
  /\ IF bc = None THEN TRUE ELSE bc.status \in {"done", "raised"}
  /\ bc' = [i |-> 1, status |-> "running", message |-> NotifyEventUpdate,
            to |-> 0, sent |-> [v \in Viewers |-> 0],
            stayed |-> {v \in Registered : sockets[v] = "open"}]
  /\ UNCHANGED <<active_connections, sockets>>
  /\ BusOnly

\* What await connection.send_json(message) does for a socket in condition
\* c: it returns after the send, it waits, or, on a connection that has
\* ended, it raises or returns without a send, as the server decides.
SendJson(c) ==
  IF c = "open" THEN {"sent"}
  ELSE IF c = "slow" THEN {"waits"}
  ELSE {"raises", "dropped"}

\* The broadcast after send_json gave outcome o for viewer v.
AfterSend(b, v, o) ==
  IF o = "sent" THEN [b EXCEPT !.status = "running", !.to = 0,
                               !.sent = [b.sent EXCEPT ![v] = b.sent[v] + 1]]
  ELSE IF o = "waits" THEN [b EXCEPT !.status = "blocked", !.to = v]
  ELSE IF o = "raises" THEN [b EXCEPT !.status = "raised", !.to = 0]
  ELSE [b EXCEPT !.status = "running", !.to = 0]

\* ConnectionManager.broadcast, one turn of the for loop: the iterator yields
\* the element at its index of the list as it is now, or ends the loop when
\* the index is past the end; then send_json is awaited.
BroadcastStep ==
  /\ bc # None
  /\ bc.status = "running"
  /\ IF bc.i > Len(active_connections)
     THEN bc' = [bc EXCEPT !.status = "done"]
     ELSE LET v == active_connections[bc.i]
          IN  \E o \in SendJson(sockets[v]) :
                bc' = AfterSend([bc EXCEPT !.i = bc.i + 1], v, o)
  /\ UNCHANGED <<active_connections, sockets>>
  /\ BusOnly

\* The send_json the broadcast waits in ends: the client has read again, or
\* the connection has ended.
BlockedSendEnds ==
  /\ bc # None
  /\ bc.status = "blocked"
  /\ sockets[bc.to] # "slow"
  /\ \E o \in SendJson(sockets[bc.to]) : bc' = AfterSend(bc, bc.to, o)
  /\ UNCHANGED <<active_connections, sockets>>
  /\ BusOnly

\* The client reads again.
Drain ==
  /\ \E v \in Viewers :
       /\ sockets[v] = "slow"
       /\ sockets' = [sockets EXCEPT ![v] = "open"]
  /\ UNCHANGED <<active_connections, bc>>
  /\ BusOnly

\* ---------------------------------------------------------------- client SDK
\* Objects a wrapped function returns, by their attributes: an OpenAI chat
\* completion, an Anthropic message, a completion whose usage is None, and
\* two results that are no LLM response.
OpenAIResponse ==
  [model |-> "gpt-4",
   usage |-> [prompt_tokens |-> 1, completion_tokens |-> 2, total_tokens |-> 3]]
AnthropicResponse ==
  [model |-> "claude-3", usage |-> [input_tokens |-> 1, output_tokens |-> 2]]
NoUsageResponse == [model |-> "gpt-4", usage |-> None]
Results ==
  {OpenAIResponse, AnthropicResponse, NoUsageResponse,
   [text |-> "hello"], [items |-> 0]}

\* The exceptions a wrapped function raises.
UserErrors ==
  {[type |-> "ValueError", message |-> "boom"],
   [type |-> "TimeoutError", message |-> "timed out"]}

\* What calling the wrapped function, or running the with block, does.
Outcomes ==
  {[returns |-> r] : r \in Results} \cup {[raises |-> e] : e \in UserErrors}

Durations == {0, 12}                  \* duration_ms
Projects == {None, Val("production")} \* LLMScope.project
SpanNames == {"get_completion"}       \* name or func.__name__

HasAttr(obj, a) == a \in DOMAIN obj
HasAttrs(obj, as) == as \subseteq DOMAIN obj

\* The keys an event dictionary of the SDK can have; a key it does not have
\* is Absent.
SdkEvent(model, provider, tp, tc, tt, latency_ms, status, has_error) ==
  [model |-> model, provider |-> provider, tokens_prompt |-> tp,
   tokens_completion |-> tc, tokens_total |-> tt, latency_ms |-> latency_ms,
   status |-> status, has_error |-> has_error, error_message |-> Absent,
   project_id |-> Absent, metadata |-> Absent]

\* extract_openai_metrics: the event for an object that has model and usage
\* and whose usage has the OpenAI token counts; None otherwise (an
\* AttributeError is caught).
ExtractOpenaiMetrics(response, duration_ms) ==
  IF HasAttrs(response, {"model", "usage"})
  THEN IF HasAttrs(response.usage,
                   {"prompt_tokens", "completion_tokens", "total_tokens"})
       THEN SdkEvent(response.model, "openai", response.usage.prompt_tokens,
                     response.usage.completion_tokens,
                     Val(response.usage.total_tokens), duration_ms,
                     "success", FALSE)
       ELSE None
  ELSE None

\* extract_anthropic_metrics: the same with input_tokens and output_tokens.
ExtractAnthropicMetrics(response, duration_ms) ==
  IF HasAttrs(response, {"model", "usage"})
  THEN IF HasAttrs(response.usage, {"input_tokens", "output_tokens"})
       THEN SdkEvent(response.model, "anthropic", response.usage.input_tokens,
                     response.usage.output_tokens,
                     Val(response.usage.input_tokens
                           + response.usage.output_tokens),
                     duration_ms, "success", FALSE)
       ELSE None
  ELSE None

WithProject(event, project) ==
  IF project # None THEN [event EXCEPT !.project_id = project] ELSE event

\* An extraction that knows the OpenAI format only.
ExtractEventOpenaiOnly(result, duration_ms, name, project) ==
  LET event == ExtractOpenaiMetrics(result, duration_ms)
  IN  IF event = None THEN None
      ELSE [WithProject(event, project)
              EXCEPT !.metadata = Val({<<"function", name>>})]

\* LLMScope._extract_event: the OpenAI format, then the Anthropic format;
\* project_id and metadata.function are added to an event that was found.
ExtractEvent(result, duration_ms, name, project) ==
  LET first == ExtractOpenaiMetrics(result, duration_ms)
      event == IF first = None
               THEN ExtractAnthropicMetrics(result, duration_ms)
               ELSE first
  IN  IF event = None THEN None
      ELSE [WithProject(event, project)
              EXCEPT !.metadata = Val({<<"function", name>>})]

\* The event of LLMScope._track_error and of TrackingSpan._track_error.
ErrorEvent(error, duration_ms, metadata, project) ==
  WithProject([SdkEvent("unknown", "unknown", 0, 0, Absent, duration_ms,
                        "error", TRUE)
                 EXCEPT !.error_message = Val(error.message),
                        !.metadata = Val(metadata)],
              project)

\* client.events.ingest: the POST, raise_for_status, the answer; an error of
\* the transport or of the service is raised.
Ingest(event, up) ==
  IF up THEN [ok |-> TRUE, error |-> None]
  ELSE [ok |-> FALSE, error |-> [type |-> "ConnectionError",
                                 message |-> "service unreachable"]]

\* An ingest whose exception is let through.
GuardedLetsThrough(r, debug) ==
  [raised |-> r.error, printed |-> FALSE]

\* try: ...ingest(event) except Exception: print when debug is set.
Guarded(r, debug) ==
  [raised |-> None, printed |-> ~r.ok /\ debug]

\* _track_error: the error event is ingested under the guard.
TrackError(error, duration_ms, metadata, project, up, debug) ==
  LET event == ErrorEvent(error, duration_ms, metadata, project)
      g == Guarded(Ingest(event, up), debug)
  IN  [ingests |-> <<event>>, raised |-> g.raised, printed |-> g.printed]

\* What a wrapped call did, for the properties.
SdkCall(api, f, up, debug, ingests, returned, raised, printed) ==
  [api |-> api, f |-> f, up |-> up, debug |-> debug, ingests |-> ingests,
   returned |-> returned, raised |-> raised, printed |-> printed]

\* sync_wrapper and async_wrapper of LLMScope.trace, which differ in the
\* await only: the function is called; an event extracted from its result is
\* ingested under the guard and the result returned; any Exception inside the
\* outer try is tracked by _track_error and raised again.
TraceCall(api, f, duration_ms, name, project, up, debug) ==
  LET meta == {<<"function", name>>}
  IN  IF HasAttr(f, "raises")
      THEN LET t == TrackError(f.raises, duration_ms, meta, project, up, debug)
           IN  SdkCall(api, f, up, debug, t.ingests, None,
                       IF t.raised # None THEN t.raised ELSE f.raises,
                       t.printed)
      ELSE LET event == ExtractEvent(f.returns, duration_ms, name, project)
           IN  IF event = None
               THEN SdkCall(api, f, up, debug, <<>>, f.returns, None, FALSE)
               ELSE LET g == Guarded(Ingest(event, up), debug)
                    IN  IF g.raised = None
                        THEN SdkCall(api, f, up, debug, <<event>>, f.returns,
                                     None, g.printed)
                        ELSE LET t == TrackError(g.raised, duration_ms, meta,
                                                 project, up, debug)
                             IN  SdkCall(api, f, up, debug,
                                         <<event>> \o t.ingests, None,
                                         IF t.raised # None THEN t.raised
                                         ELSE g.raised,
                                         t.printed)

\* TrackingSpan.track_response: the two extractors, the span's metadata and
\* the project, the ingest under the guard.
TrackResponse(response, duration_ms, metadata, project, up, debug) ==
  LET first == ExtractOpenaiMetrics(response, duration_ms)
      found == IF first = None
               THEN ExtractAnthropicMetrics(response, duration_ms)
               ELSE first
  IN  IF found = None
      THEN [ingests |-> <<>>, raised |-> None, printed |-> FALSE]
      ELSE LET event == WithProject(
                          IF metadata # {}
                          THEN [found EXCEPT !.metadata = Val(metadata)]
                          ELSE found, project)
               g == Guarded(Ingest(event, up), debug)
           IN  [ingests |-> <<event>>, raised |-> g.raised,
                printed |-> g.printed]

\* with tracker.track() as span: response = f(); span.track_response(response)
\* An exception of the block is tracked by __exit__, which returns False.
SpanCall(f, duration_ms, metadata, project, up, debug) ==
  IF HasAttr(f, "raises")
  THEN LET t == TrackError(f.raises, duration_ms, metadata, project, up, debug)
       IN  SdkCall("span", f, up, debug, t.ingests, None,
                   IF t.raised # None THEN t.raised ELSE f.raises, t.printed)
  ELSE LET t == TrackResponse(f.returns, duration_ms, metadata, project, up,
                              debug)
       IN  IF t.raised = None
           THEN SdkCall("span", f, up, debug, t.ingests, f.returns, None,
                        t.printed)
           ELSE LET x == TrackError(t.raised, duration_ms, metadata, project,
                                    up, debug)
                IN  SdkCall("span", f, up, debug, t.ingests \o x.ingests, None,
                            IF x.raised # None THEN x.raised ELSE t.raised,
                            x.printed)

\* A step of the SDK: the service's own state stands still.
SdkOnly ==
  UNCHANGED <<dataVars, cacheVars, workerVars, lifeVars, nEnq, nPopped,
              accepted, resp, batchHist, bresp, rejected, broadcast,
              fieldVars, recent, busVars, sideVars>>

\* User code calls a function decorated with @tracker.trace().
Trace ==
  /\ \E api \in {"trace_sync", "trace_async"}, f \in Outcomes,
        duration_ms \in Durations, name \in SpanNames, project \in Projects,
        up \in Reachable, debug \in BOOLEAN :
       sdk' = TraceCall(api, f, duration_ms, name, project, up, debug)
  /\ SdkOnly

\* User code runs a with tracker.track() block that tracks its response.
Track ==
  /\ \E f \in Outcomes, duration_ms \in Durations,
        metadata \in {{}, {<<"user_id", "user123">>}}, project \in Projects,
        up \in Reachable, debug \in BOOLEAN :
       sdk' = SpanCall(f, duration_ms, metadata, project, up, debug)
  /\ SdkOnly

\* ------------------------------------------------------ SDK: OpenAI patch
MaxPatches == 3
RecursionLimit == 3                   \* frames before RecursionError

\* The LLMScope trackers user code passes to patch_openai.
TrackerInstances ==
  {[name |-> "a", project |-> None, debug |-> FALSE],
   [name |-> "b", project |-> Val("production"), debug |-> TRUE]}

\* The function objects the n-th call of patch_openai defines.
TrackedCreate(n) == [fn |-> "tracked_create", closure |-> n]
TrackedACreate(n) == [fn |-> "tracked_acreate", closure |-> n]
IsTracked(f) == "closure" \in DOMAIN f

\* A patch that saves whatever the provider's attribute holds, every time.
SaveOriginalAlways(saved, current) == current

\* patch_openai: the original is saved only while none is saved.
SaveOriginal(saved, current) == IF saved = None THEN current ELSE saved

\* patch_openai(tracker): the import, _tracker_instance, the originals, the
\* two new wrappers installed on the provider's classes.
PatchOpenai(g, tracker, importable) ==
  IF ~importable
  THEN [g EXCEPT !.op = [name |-> "patch_openai", raised |-> "ImportError"]]
  ELSE [g EXCEPT !.tracker_instance = tracker,
                 !.original_create = SaveOriginal(g.original_create, g.create),
                 !.original_acreate = SaveOriginal(g.original_acreate, g.acreate),
                 !.create = TrackedCreate(g.n + 1),
                 !.acreate = TrackedACreate(g.n + 1),
                 !.n = g.n + 1,
                 !.stack = g.stack + 1,
                 !.op = [name |-> "patch_openai", raised |-> "none"]]

\* unpatch_openai(): returns at once when nothing is saved; else restores the
\* provider's attributes and resets the three globals.
UnpatchOpenai(g) ==
  IF g.original_create = None
  THEN [g EXCEPT !.op = [name |-> "unpatch_openai", raised |-> "none"]]
  ELSE [g EXCEPT !.create = g.original_create,
                 !.acreate = IF g.original_acreate # None
                             THEN g.original_acreate ELSE g.acreate,
                 !.original_create = None,
                 !.original_acreate = None,
                 !.tracker_instance = None,
                 !.stack = 0,
                 !.op = [name |-> "unpatch_openai", raised |-> "none"]]

\* Calling the function object f: a wrapper calls what the global
\* _original_create (_original_acreate) holds at that moment; the provider's
\* method runs. wrappers counts the wrappers passed through.
RECURSIVE Invoke(_, _, _, _)
Invoke(g, f, api, depth) ==
  IF ~IsTracked(f)
  THEN [ran |-> f, wrappers |-> depth, raised |-> "none"]
  ELSE LET orig == IF api = "create" THEN g.original_create
                   ELSE g.original_acreate
       IN  IF orig = None
           THEN [ran |-> None, wrappers |-> depth + 1, raised |-> "TypeError"]
           ELSE IF depth + 1 > RecursionLimit
           THEN [ran |-> None, wrappers |-> depth + 1,
                 raised |-> "RecursionError"]
           ELSE Invoke(g, orig, api, depth + 1)

\* What the provider's method does when it runs.
ProviderOutcomes ==
  {[returns |-> OpenAIResponse], [returns |-> NoUsageResponse]}
    \cup {[raises |-> e] : e \in UserErrors}

\* tracked_create and tracked_acreate, which differ in the await only: the
\* event of a response that has one gets project_id and metadata.auto_tracked
\* and is ingested under the guard; an exception is tracked and raised again.
TrackedEvents(tracker, outcome, duration_ms, up) ==
  IF HasAttr(outcome, "returns")
  THEN LET event == ExtractOpenaiMetrics(outcome.returns, duration_ms)
       IN  IF event = None THEN <<>>
           ELSE <<[WithProject(event, tracker.project)
                     EXCEPT !.metadata = Val({<<"auto_tracked", TRUE>>})]>>
  ELSE TrackError(outcome.raises, duration_ms,
                  {<<"function", "openai.chat.completions.create">>},
                  tracker.project, up, tracker.debug).ingests

\* User code calls client.chat.completions.create through the class attribute.
CallCreate(g, api, outcome, duration_ms, up) ==
  LET f == IF api = "create" THEN g.create ELSE g.acreate
      inv == Invoke(g, f, api, 0)
      events == IF inv.wrappers = 0 \/ g.tracker_instance = None THEN <<>>
                ELSE TrackedEvents(g.tracker_instance, outcome, duration_ms, up)
  IN  [g EXCEPT !.op =
         IF inv.raised # "none"
         THEN [name |-> "call", api |-> api, ran |-> None,
               wrappers |-> inv.wrappers, raised |-> inv.raised,
               returned |-> None, ingests |-> <<>>]
         ELSE [name |-> "call", api |-> api, ran |-> inv.ran,
               wrappers |-> inv.wrappers,
               raised |-> IF HasAttr(outcome, "raises")
                          THEN outcome.raises.type ELSE "none",
               returned |-> IF HasAttr(outcome, "returns")
                            THEN outcome.returns ELSE None,
               ingests |-> events]]

PatchOnly ==
  UNCHANGED <<dataVars, cacheVars, workerVars, lifeVars, nEnq, nPopped,
              accepted, resp, batchHist, bresp, rejected, broadcast,
              fieldVars, recent, busVars, sdk, pool, taken>>

Patch ==
  /\ patch.n < MaxPatches
  /\ \E tracker \in TrackerInstances, importable \in BOOLEAN :
       patch' = PatchOpenai(patch, tracker, importable)
  /\ PatchOnly

Unpatch ==
  /\ patch' = UnpatchOpenai(patch)
  /\ PatchOnly

Create ==
  /\ \E api \in {"create", "acreate"}, outcome \in ProviderOutcomes,
        up \in Reachable :
       patch' = CallCreate(patch, api, outcome, 12, up)
  /\ PatchOnly

PatchNext == Patch \/ Unpatch \/ Create

PatchSpec == Init /\ [][PatchNext]_vars

\* ------------------------------------------------------- a pool of workers
\* Several EventProcessor processes run against the same broker. Of each, the
\* steps that touch the queue are followed; what it does with a payload is
\* what ProcessSingleEvent does.
PoolOnly ==
  /\ resp' = None
  /\ bresp' = None
  /\ rejected' = None
  /\ broadcast' = None
  /\ UNCHANGED <<dlq, store, cacheVars, workerVars, lifeVars, nEnq, nPopped,
                 accepted, batchHist, fieldVars, recent, busVars, sdk, patch>>

\* run of worker w: llen, then process_batch when the queue is not empty, else
\* the poll sleep; an exception of llen is logged and slept over.
PoolPoll(w) ==
  /\ pool[w].pc = "poll"
  /\ \E brokerUp \in Reachable :
       pool' = [pool EXCEPT ![w].pc =
                  IF brokerUp /\ Len(queue) > 0 THEN "pop" ELSE "poll"]
  /\ UNCHANGED <<queue, taken>>
  /\ PoolOnly

\* process_batch of worker w: one rpop of the pop loop.
PoolPop(w) ==
  /\ pool[w].pc = "pop"
  /\ \E brokerUp \in Reachable :
       IF ~brokerUp
       THEN \* rpop raises out of process_batch; run logs and sleeps 1 s
         /\ pool' = [pool EXCEPT ![w].pc = "poll", ![w].batch = <<>>]
         /\ UNCHANGED <<queue, taken>>
       ELSE
         LET r == RPop(queue)
             first == pool[w].batch = <<>>
             b == IF first /\ r.item # None THEN pool[w].b + 1 ELSE pool[w].b
             batch == IF r.item = None THEN pool[w].batch
                      ELSE Append(pool[w].batch, r.item)
             over == r.item = None \/ Len(batch) = BatchSize
         IN  /\ queue' = r.rest
             /\ pool' = [pool EXCEPT ![w].pc = IF over THEN AfterPop(batch)
                                               ELSE "pop",
                                     ![w].batch = batch,
                                     ![w].b = b]
             /\ taken' = IF r.item = None THEN taken
                         ELSE Append(taken, [w |-> w, b |-> b, item |-> r.item])
  /\ PoolOnly

\* process_batch of worker w: the for loop over the batch is over, db.close().
PoolProcess(w) ==
  /\ pool[w].pc = "process"
  /\ pool' = [pool EXCEPT ![w].pc = "poll", ![w].batch = <<>>]
  /\ UNCHANGED <<queue, taken>>
  /\ PoolOnly

PoolPolls == \E w \in PoolWorkers : PoolPoll(w)
PoolPops == \E w \in PoolWorkers : PoolPop(w)
PoolProcesses == \E w \in PoolWorkers : PoolProcess(w)

PoolNext ==
  \/ IngestEvent
  \/ PoolPolls
  \/ PoolPops
  \/ PoolProcesses

PoolSpec == Init /\ [][PoolNext]_vars

\* ------------------------------------------------- payloads of any producer
\* Whatever shares the broker can put a string on the primary queue: the
\* bytes "{not-json", the JSON array [], an object with a key that is no
\* column, an event without time, and a well-formed event.
MaxPayloads == 2

PayloadBodies ==
  {Garbage,
   JsonDumps(JsonArray),
   JsonDumps([foo |-> "bar"]),
   JsonDumps([id |-> UuidStr(1)]),
   JsonDumps([id |-> UuidStr(2), time |-> IsoFormat(Now)])}

SeedPayload ==
  /\ nEnq < MaxPayloads
  /\ \E body \in PayloadBodies :
       /\ queue' = LPush(queue, Item(body))
       /\ nEnq' = nEnq + 1
  /\ resp' = None
  /\ OnlyResp
  /\ UNCHANGED lifeVars
  /\ UNCHANGED <<dlq, store, cacheVars, workerVars, nPopped, accepted, batchHist>>

PayloadNext ==
  \/ SeedPayload
  \/ Poll
  \/ Wake
  \/ Pop
  \/ ProcessSingleEvent
  \/ Backoff

PayloadSpec == Init /\ [][PayloadNext]_vars

Next ==
  \/ SeedQueue
  \/ IngestEvent
  \/ Poll
  \/ Wake
  \/ Pop
  \/ ProcessSingleEvent
  \/ Backoff

Spec == Init /\ [][Next]_vars

\* Clients of the batch endpoint, clients whose requests fail validation, and
\* the worker.
BatchNext ==
  \/ IngestEventsBatch
  \/ IngestEventInvalid
  \/ Poll
  \/ Wake
  \/ Pop
  \/ ProcessSingleEvent
  \/ Backoff

BatchSpec == Init /\ [][BatchNext]_vars

\* The worker with its shutdown paths, and the producers that run in the API
\* process.
LifecycleNext ==
  \/ IngestEvent
  \/ Chat
  \/ Poll
  \/ Wake
  \/ Pop
  \/ ProcessSingleEvent
  \/ Backoff
  \/ Stop
  \/ Interrupt

LifecycleSpec == Init /\ [][LifecycleNext]_vars

\* Clients with and without the API key: no worker runs.
AuthNext ==
  \/ IngestEvent
  \/ Unauthenticated

AuthSpec == Init /\ [][AuthNext]_vars

\* The pipeline and the events viewer's delete button.
AdminNext ==
  \/ IngestEvent
  \/ DeleteEvents
  \/ Poll
  \/ Wake
  \/ Pop
  \/ ProcessSingleEvent
  \/ Backoff

AdminSpec == Init /\ [][AdminNext]_vars

\* Viewers of the live update bus and a publisher.
BusNext ==
  \/ Connect
  \/ Stall
  \/ Drain
  \/ Leave
  \/ Disconnect
  \/ ReceiveFails
  \/ BroadcastBegin
  \/ BroadcastStep
  \/ BlockedSendEnds

BusSpec == Init /\ [][BusNext]_vars

\* User code that calls through the SDK's trace decorator and tracking span.
SdkNext ==
  \/ Trace
  \/ Track

SdkSpec == Init /\ [][SdkNext]_vars

\* Readers of the recent slice over the tables the service can start with.
RecentInit ==
  /\ store \in SUBSET TableRows
  /\ ProcessInit
  /\ req = None
  /\ event_data = None
  /\ row = None

RecentNext == RecentEvents

RecentSpec == RecentInit /\ [][RecentNext]_vars

\* The worker keeps running and the broker is not down for good: the loop's
\* steps are taken, and the llen and the rpop are answered again and again.
PollOk == Poll /\ pc' # "errsleep"
PopOk == Pop /\ pc' # "errsleep"

FairSpec ==
  /\ Spec
  /\ WF_vars(Wake)
  /\ WF_vars(Backoff)
  /\ WF_vars(ProcessSingleEvent)
  /\ SF_vars(PollOk)
  /\ SF_vars(PopOk)

\* ------------------------------------------------------ what the claims read
\* The row the store holds for a payload string, if any.
Stored(body) ==
  /\ JsonLoads(body).ok
  /\ \E r \in store : /\ r.id = UUID(JsonLoads(body).doc.id)
                      /\ r.time = FromIsoFormat(JsonLoads(body).doc.time)

\* Some row carries this event id.
HasRow(id) == \E r \in store : r.id = UUID(id)

\* The DLQ entries, parsed.
DlqEntry(k) == JsonLoads(dlq[k]).doc

InDlq(body) == \E k \in 1..Len(dlq) : DlqEntry(k).event = body

DlqHasId(id) == \E k \in 1..Len(dlq) : DlqEntry(k).event_id = id

\* process_batch is over: it returned, or an exception left it.
BatchEnded == pc \in {"poll", "idle", "errsleep"}

\* The payload whose process_single_event finished last, while last stands.
Finished == last # None
LastItem == popped[Len(fates)]
LastFate == fates[Len(fates)]
LastWellFormed == JsonLoads(LastItem.body).ok

\* The pop loop of the current batch returned its list.
PopReturned == pc \in {"process", "backoff"}

\* ------------------------------------------------------------------ claims

\* C1: every ingest answered accepted with event_id X leads, while the worker
\* keeps running, to a row with id X in the store or a DLQ entry with
\* event_id X.
C1_NoLossBetweenQueueAndTerminus ==
  \A i \in 1..MaxEnq :
     (UuidStr(i) \in accepted) ~> (HasRow(UuidStr(i)) \/ DlqHasId(UuidStr(i)))

\* C2: whenever process_batch has ended, by return or by exception, every
\* payload it removed from the primary queue is a row of the store or an
\* entry of the DLQ.
C2_PopIsAnObligation ==
  BatchEnded =>
    \A k \in 1..Len(popped) : Stored(popped[k].body) \/ InDlq(popped[k].body)

\* C3: a well-formed event E whose store write failed on every attempt was
\* written exactly MaxRetries + 1 times, the DLQ then grew by exactly one
\* entry, whose event_id is E's id, and the store holds no row for E.
C3_RetryExhaustion ==
  (Finished /\ LastWellFormed /\ LastFate # "stored") =>
     /\ last.attempts = MaxRetries + 1
     /\ last.dlq1 = last.dlq0 + 1
     /\ Len(dlq) >= 1
     /\ DlqEntry(1).event_id = JsonLoads(LastItem.body).doc.id
     /\ DlqEntry(1).event = LastItem.body
     /\ ~Stored(LastItem.body)

\* C4: a well-formed event E whose store write failed on the first attempt
\* (on k <= MaxRetries attempts in a row) and whose next attempt the store
\* accepts ends as a row of the store, with no DLQ entry made for it and the
\* DLQ as long as before.
StoreAcceptedARetry ==
  /\ Len(last.errors) >= 1
  /\ last.blocked \/ LastFate = "stored"

C4_RetryThenSucceed ==
  (Finished /\ LastWellFormed /\ StoreAcceptedARetry) =>
     /\ LastFate = "stored"
     /\ Stored(LastItem.body)
     /\ last.dlq1 = last.dlq0

\* C5: a payload that is not parseable JSON gets no store write and no
\* backoff sleep, exactly one new DLQ entry, with event_id "unknown", and the
\* batch goes on with its next payload.
C5_MalformedIsUnretriable ==
  (Finished /\ ~LastWellFormed) =>
     /\ last.attempts = 0
     /\ last.backoffs = <<>>
     /\ last.dlq1 = last.dlq0 + 1
     /\ Len(dlq) >= 1
     /\ DlqEntry(1).event_id = Unknown
     /\ DlqEntry(1).event = LastItem.body
     /\ Len(fates) < Len(popped) => (pc = "process" /\ idx = Len(fates) + 1)

\* C6: writing a payload whose (id, time) is already a row of the store is
\* accepted silently: the write raises no error, so there is no retry and no
\* DLQ entry for it, and the store holds one row with that key.
C6_StoreIdempotentOnConflict ==
  /\ \A k \in 1..Len(errors) : errors[k] # "IntegrityError"
  /\ Finished =>
       \A k \in 1..Len(last.errors) : last.errors[k] # "IntegrityError"
  /\ (Finished /\ LastWellFormed /\ Stored(LastItem.body)) =>
        (LastFate = "stored" /\ last.dlq1 = last.dlq0)

\* C7: for payloads A before B of one batch, if B was committed to the store
\* then A had been committed to the store or placed in the DLQ.
C7_InBatchOrdering ==
  \A a \in 1..Len(fates), b \in 1..Len(fates) :
     (a < b /\ fates[b] = "stored") => fates[a] \in {"stored", "dlq"}

\* C8: against the FIFO reference in which the j-th payload removed is the
\* j-th payload appended: the batch the pop loop returns is the min(n, m)
\* oldest payloads in arrival order, m counting the payloads the queue held
\* for the batch; the queue keeps the others in order; and the loop ends on an
\* empty queue instead of waiting.
C8_PopBatchIsFifo ==
  /\ Len(queue) = nEnq - nPopped
  /\ \A k \in 1..Len(queue) : queue[k].seq = nEnq - k + 1
  /\ \A k \in 1..Len(popped) : popped[k].seq = nPopped - Len(popped) + k
  /\ PopReturned =>
       /\ events_to_process = popped
       /\ Len(events_to_process) = Min(BatchSize, popAvail)
       /\ Len(events_to_process) >= Min(BatchSize, popStart)

C8_Witness ==
  /\ PopReturned /\ fates = <<>>
  /\ Len(events_to_process) = BatchSize
  /\ Len(queue) >= 1

\* C9: an ingest request made while the store is unavailable and the broker
\* healthy is answered accepted, lengthens the primary queue by one and
\* performs no store operation.
C9_IngestIndependentOfStore ==
  (resp # None /\ ~resp.env.storeUp /\ resp.env.brokerUp) =>
     /\ resp.status = 200
     /\ resp.body = "accepted"
     /\ resp.grew = 1
     /\ resp.queries = 0

\* C10: an ingest request whose enqueue the broker fails is answered 5xx,
\* carries no event_id and leaves the primary queue as it was.
C10_BrokerDownFailsIngest ==
  (resp # None /\ ~resp.env.brokerUp) =>
     /\ resp.status >= 500
     /\ resp.event_id = None
     /\ resp.grew = 0

C10_Witness ==
  /\ resp # None
  /\ ~resp.env.brokerUp
  /\ resp.env.cached
  /\ resp.body = "Failed to queue event"
  /\ Len(queue) >= 1

\* C11: an ingest request that fails validation (a required field missing or
\* malformed, an invalid event in a batch, a batch of no events or of more
\* than the maximum) is answered with status 400 and leaves the primary queue
\* as it was.
C11_ValidationNeverReachesQueue ==
  rejected # None => (rejected.status = 400 /\ rejected.grew = 0)

\* C12: when the enqueue of the k-th event of a valid batch of n events fails,
\* the request is answered 5xx, the queue gained exactly the first k-1 events,
\* in request order, and none of the events k..n.
C12_BatchTransportFailure ==
  (bresp # None /\ bresp.tried >= 1 /\ bresp.env.failAt >= 1) =>
     LET k == bresp.env.failAt
     IN  /\ bresp.status >= 500
         /\ bresp.grew = k - 1
         /\ nEnq = bresp.first + k - 2
         /\ \A j \in 1..(k - 1) :
              /\ queue[k - j].seq = bresp.first + j - 1
              /\ JsonLoads(queue[k - j].body).doc.id = UuidStr(bresp.first + j - 1)
         /\ \A i \in 1..Len(queue) : queue[i].seq < bresp.first + k - 1

C12_Witness ==
  /\ bresp # None
  /\ bresp.n = MaxBatchLen
  /\ bresp.env.failAt = MaxBatchLen
  /\ bresp.tried = MaxBatchLen
  /\ bresp.body = "Failed to queue events"
  /\ Len(queue) >= MaxBatchLen - 1

\* C13: a valid batch of N events sent while the broker answers every enqueue
\* is answered accepted with count N and N event_ids in request order, and the
\* queue gains the N payloads with those ids in that order; and an event of an
\* accepted batch that the worker has processed without a database outage is
\* the one row of the store with its id.
C13_BatchIngestSuccess ==
  /\ (bresp # None /\ bresp.env.failAt = 0) =>
       /\ bresp.status = 200
       /\ bresp.body = "accepted"
       /\ bresp.count = bresp.n
       /\ Len(bresp.event_ids) = bresp.n
       /\ bresp.grew = bresp.n
       /\ \A j \in 1..bresp.n :
            JsonLoads(queue[bresp.n - j + 1].body).doc.id = bresp.event_ids[j]
  /\ (Finished /\ LastWellFormed
        /\ JsonLoads(LastItem.body).doc.id \in accepted
        /\ \A k \in 1..Len(last.errors) : last.errors[k] # "OperationalError") =>
       /\ LastFate = "stored"
       /\ Cardinality({r \in store :
                         r.id = UUID(JsonLoads(LastItem.body).doc.id)}) = 1

\* C14: every row written to the store has tokens_total = tokens_prompt +
\* tokens_completion, whatever tokens_total the client sent.
C14_TokenInvariant ==
  row # None =>
    row.tokens_total = Val(row.tokens_prompt.v + row.tokens_completion.v)

\* C15: in every payload ingest enqueued and in every row of the store,
\* has_error is true exactly when status is "error".
HasErrorIffStatusError(d) == (d.has_error = Val(TRUE)) <=> (d.status = Val("error"))

C15_ErrorFlagInvariant ==
  /\ event_data # None => HasErrorIffStatusError(event_data)
  /\ row # None => HasErrorIffStatusError(row)

\* C16: every field of a stored row has the value it has in the payload that
\* was enqueued: no field of the payload is dropped or altered, and the row
\* has no value the payload does not have.
C16_PayloadStableAfterEnqueue ==
  row # None =>
    /\ \A f \in Fields : event_data[f] # Absent =>
                           (f \in Columns /\ row[f] = event_data[f])
    /\ \A f \in Columns : row[f] # None => event_data[f] # Absent

\* C17: a valid event whose model is not in the pricing table and that
\* carries no cost_usd is enqueued with cost_usd = 0 and stored with
\* cost_usd = 0; a cost_usd the client supplied is enqueued as supplied.
C17_UnknownModelPricesToZero ==
  event_data # None =>
    /\ (req.model.v \notin DOMAIN Pricing /\ req.cost_usd \in {Absent, None}) =>
         /\ event_data.cost_usd = Val(0)
         /\ row # None => row.cost_usd = Val(0)
    /\ req.cost_usd \notin {Absent, None} => event_data.cost_usd = req.cost_usd

C17_Witness ==
  /\ row # None
  /\ req.model = Val("my-model")
  /\ req.cost_usd = Absent
  /\ row.cost_usd = Val(0)

\* C18: when the worker has left its loop, every payload of the batch it was
\* processing when the shutdown signal arrived is a row of the store or an
\* entry of the DLQ: the loop is left at a batch boundary only.
C18_ShutdownAtBatchBoundary ==
  pc = "stopped" =>
    \A k \in 1..Len(popped) : Stored(popped[k].body) \/ InDlq(popped[k].body)

\* C19: a step in which an exception escapes a tick of the loop (the poll of
\* the queue depth or the batch) leaves the worker running and asleep; from
\* that sleep its next step is the poll of the queue; and the loop is left
\* only after a shutdown signal.
C19_FailureContainment ==
  [][/\ (pc' = "stopped" /\ pc # "stopped") => shutdown'
     /\ (pc \in {"poll", "pop"} /\ pc' \notin {"poll", "pop", "idle", "process"})
          => (shutdown' \/ (pc' = "errsleep" /\ running'))
     /\ (pc = "errsleep" /\ pc' # "errsleep") => (pc' = "poll" \/ shutdown')
    ]_vars

C19_Witness ==
  /\ pc = "errsleep"
  /\ running
  /\ ~shutdown
  /\ popped # <<>>

\* C20: a step that ends a batch in which at least one event was committed to
\* the store broadcasts an event_update to the viewers.
C20_PostCommitNotification ==
  [][(pc = "process" /\ pc' = "poll" /\ "stored" \in Range(fates'))
       => broadcast' = NotifyEventUpdate]_vars

\* C29: the retry ladder is bounded. retry_count never exceeds MaxRetries; the
\* failed attempt with retry_count = k is followed by a sleep of
\* BackoffBase^k seconds and attempt k + 1 only while k < MaxRetries; no
\* payload is written more than MaxRetries + 1 times, after which
\* process_single_event has returned.
LadderOf(n) == [k \in 1..n |-> Pow(BackoffBase, k - 1)]

C29_RetryLadderBounded ==
  /\ retry_count <= MaxRetries
  /\ attempts <= MaxRetries + 1
  /\ Len(backoffs) <= MaxRetries
  /\ backoffs = LadderOf(Len(backoffs))
  /\ pc = "backoff" => (retry_count < MaxRetries /\ Len(backoffs) = retry_count + 1)
  /\ pc = "process" => (attempts = retry_count /\ Len(backoffs) = retry_count)
  /\ Finished =>
       /\ last.attempts <= MaxRetries + 1
       /\ last.backoffs = LadderOf(Len(last.backoffs))
       /\ (LastWellFormed /\ LastFate # "stored") =>
            last.backoffs = LadderOf(MaxRetries)

C29_Witness ==
  /\ Finished
  /\ last.attempts = MaxRetries + 1
  /\ last.backoffs = <<1, 2, 4>>
  /\ LastFate = "dlq"

\* C30: a step that is not a producer's enqueue never adds to the primary
\* queue: it leaves the head part of the queue as it was, and no payload the
\* worker popped is in the queue afterwards.
C30_RetriesNeverReenterQueue ==
  [][nEnq' = nEnq =>
       /\ Len(queue') <= Len(queue)
       /\ queue' = SubSeq(queue, 1, Len(queue'))
       /\ \A k \in 1..Len(popped') : \A i \in 1..Len(queue') :
            queue'[i].seq # popped'[k].seq
    ]_vars

C30_Witness ==
  /\ pc = "backoff"
  /\ retry_count = MaxRetries - 1
  /\ Len(queue) >= 1
  /\ Len(dlq) >= 1

\* C24: the tenant_id and project_id of an enqueued payload are those of the
\* default tenant and project, and a request that differs from the one sent
\* only in its tenant_id and project_id yields a payload with the same two
\* ids, through the single and through the batch endpoint.
ScopeOf(d) == <<d.tenant_id, d.project_id>>

C24_ScopeInjectionIndependentOfClient ==
  event_data # None =>
    /\ ScopeOf(event_data) = <<Val(DefaultTenantId), Val(DefaultProjectId)>>
    /\ \A a \in {Absent, Val("other-tenant")} :
         \A b \in {Absent, Val("other-project")} :
           LET r2 == [req EXCEPT !.tenant_id = a, !.project_id = b]
           IN  /\ ScopeOf(QueueEventData(EventData(r2))) = ScopeOf(event_data)
               /\ ScopeOf(QueueEventData(BatchEventData(r2))) = ScopeOf(event_data)

C24_Witness ==
  /\ event_data # None
  /\ req.tenant_id = Val("other-tenant")
  /\ req.project_id = Val("other-project")
  /\ event_data.tenant_id = Val(DefaultTenantId)

\* C23: a request to the ingest, batch ingest, recent or stats endpoint that
\* does not carry the configured API key is answered 401 and leaves the
\* primary queue as it was, whether or not the default tenant and project are
\* cached.
C23_AuthenticationGate ==
  rejected # None =>
    /\ rejected.status = 401
    /\ rejected.grew = 0

\* C26: no step removes or changes a row of the store: the set of stored rows
\* only grows.
C26_StoredEventsImmutable == [][store \subseteq store']_vars

\* C25: an answered recent request returns at most limit rows, all of them
\* rows of the default tenant and project, newest first, omits no row of the
\* scope that is newer than a row it returns, and never returns more rows
\* than the maximum, however large the limit asked for.
RowOf(e) ==
  CHOOSE r \in store : r.id = UUID(e.id) /\ r.time = FromIsoFormat(e.time)
         /\ r.tenant_id = DefaultTenantId /\ r.project_id = DefaultProjectId

LimitAsked == IF recent.limit = Absent THEN DefaultLimit ELSE recent.limit.v

RecentWithinLimitScopedAndNewestFirst ==
  (recent # None /\ recent.status = 200) =>
    LET n == Len(recent.events)
        got == {RowOf(recent.events[k]) : k \in 1..n}
        scope == {r \in store : r.tenant_id = DefaultTenantId
                                /\ r.project_id = DefaultProjectId}
    IN  /\ n <= LimitAsked
        /\ recent.count = n
        /\ Cardinality(got) = n
        /\ got \subseteq scope
        /\ \A k \in 1..(n - 1) :
             Instant(FromIsoFormat(recent.events[k].time))
               >= Instant(FromIsoFormat(recent.events[k + 1].time))
        /\ \A o \in scope \ got : \A r \in got :
             Instant(o.time) <= Instant(r.time)

C25_RecentIsBounded ==
  /\ RecentWithinLimitScopedAndNewestFirst
  /\ (recent # None /\ recent.status = 200) =>
       Len(recent.events) <= DefaultLimit

\* C21: a broadcast never waits for a viewer: a viewer that does not read
\* does not keep the broadcast from going on to the other viewers.
C21_SlowViewerNeverBlocksPublisher ==
  bc # None => bc.status # "blocked"

\* C22: a broadcast during which viewers connect, disconnect or fail raises
\* no error; when it has ended, every viewer that was registered and reading
\* from its begin to its end got the tick exactly once, and the list holds
\* no viewer whose handler has ended.
C22_RegistrationSafeUnderBroadcast ==
  bc # None =>
    /\ bc.status # "raised"
    /\ bc.status = "done" =>
         /\ \A v \in bc.stayed : bc.sent[v] = 1
         /\ \A v \in Registered : sockets[v] # "stale"

\* C27: a call through the trace decorator returns the wrapped function's
\* result unchanged; events.ingest is called once for an OpenAI or Anthropic
\* response whose metrics can be extracted and not at all for another
\* result; when the function raises, events.ingest is called once, with an
\* error event carrying status error, has_error and the error's message, and
\* the same exception is raised.
Extractable == {OpenAIResponse, AnthropicResponse}

C28_TrackingFailuresNeverReachUserCode ==
  (sdk # None /\ ~sdk.up /\ sdk.ingests # <<>>) =>
    IF HasAttr(sdk.f, "returns")
    THEN sdk.raised = None /\ sdk.returned = sdk.f.returns
    ELSE sdk.raised = sdk.f.raises

C28_Witness ==
  /\ sdk # None
  /\ sdk.api = "span"
  /\ ~sdk.up
  /\ sdk.debug
  /\ sdk.f = [returns |-> OpenAIResponse]
  /\ Len(sdk.ingests) = 1
  /\ sdk.printed
  /\ sdk.raised = None

\* C32: an event ingested without a status is enqueued with status success
\* and stored with status success; one ingested without has_error is
\* enqueued and stored with has_error false.
C32_StatusDefault ==
  /\ (req # None /\ req.status = Absent) =>
       /\ event_data # None => event_data.status = Val("success")
       /\ row # None => row.status = Val("success")
  /\ (req # None /\ req.has_error = Absent) =>
       /\ event_data # None => event_data.has_error = Val(FALSE)
       /\ row # None => row.has_error = Val(FALSE)

\* C33: every payload ingest enqueues has an id and a time that are not
\* null; an id or a time the client supplied is the one enqueued, and a
\* fresh id or the current time is assigned only when the client supplied
\* none.
C33_IdentityFill ==
  (req # None /\ event_data # None) =>
    /\ event_data.id \notin {Absent, None}
    /\ event_data.time \notin {Absent, None}
    /\ req.id # Absent => event_data.id = req.id
    /\ req.id = Absent => event_data.id = Val(UuidStr(Uuid4))
    /\ req.time \notin {Absent, None} =>
         FromIsoFormat(event_data.time.v) = req.time.v
    /\ req.time \in {Absent, None} =>
         FromIsoFormat(event_data.time.v) = Now

\* C37: a store write that failed earlier in the batch, on an earlier payload
\* or on an earlier attempt of the same payload, never makes a later write
\* fail that the store would have accepted: no write of a row the table
\* would take is refused.
C37_FailureIsolatedInBatch ==
  /\ ~blocked
  /\ last # None => ~last.blocked

\* C38: when the broker rejects the DLQ push, send_to_dlq absorbs the error:
\* process_single_event returns without a row written and without an
\* exception, and the batch goes on with the next payload in order (or ends
\* after its last payload), nothing of it dropped.
DlqPushRejected ==
  /\ pc = "process"
  /\ Len(fates') = Len(fates) + 1
  /\ fates'[Len(fates')] = "lost"

C38_DlqPushNeverRaises ==
  [][DlqPushRejected =>
       /\ store' = store
       /\ dlq' = dlq
       /\ IF idx < Len(events_to_process)
          THEN /\ pc' = "process"
               /\ idx' = idx + 1
               /\ events_to_process' = events_to_process
          ELSE pc' = "poll"]_vars

C38_Witness ==
  /\ Len(fates) = 2
  /\ fates[1] = "lost"
  /\ fates[2] = "stored"

\* C39: every event_update tick is preceded by the store commit of at least
\* one event since the previous tick: no tick is sent while the store has
\* never committed a row, and no tick is the very next step after a tick.
TickSent ==
  /\ nEnq' # nEnq
  /\ broadcast' = NotifyEventUpdate

C39_TickFollowsCommit ==
  [][TickSent => (store # {} /\ broadcast # NotifyEventUpdate)]_vars

\* C31: a payload that parses as JSON and cannot be written (a key that is no
\* column, a missing NOT NULL column, or a JSON value that is no object) goes
\* the retry path and never the immediate one: MaxRetries + 1 attempts with
\* the backoff sleeps between them, then exactly one new DLQ entry, which
\* carries the payload.
LastParsed == JsonLoads(LastItem.body).doc
LastUnwritable ==
  /\ LastWellFormed
  /\ ~(IsObject(LastParsed) /\ Writable(LastParsed))

C31_UnwritableGoesRetryPath ==
  (Finished /\ LastUnwritable) =>
     /\ Len(last.errors) = MaxRetries + 1
     /\ last.backoffs = LadderOf(MaxRetries)
     /\ last.dlq1 = last.dlq0 + 1
     /\ Len(dlq) >= 1
     /\ DlqEntry(1).event = LastItem.body

\* C34: every entry pushed on the DLQ has the fields event, error, timestamp
\* and event_id; event is the popped payload string unchanged; event_id is
\* the payload's id when the payload parsed as a JSON object with an id, and
\* "unknown" otherwise.
C34_DlqEntryShape ==
  [][Len(dlq') > Len(dlq) =>
       LET e == JsonLoads(dlq'[1]).doc
           body == events_to_process[idx].body
       IN  /\ Tail(dlq') = dlq
           /\ DOMAIN e = {"event", "error", "timestamp", "event_id"}
           /\ e.event = body
           /\ e.event_id =
                IF body = Garbage \/ body.doc = JsonArray
                   \/ "id" \notin DOMAIN body.doc
                THEN Unknown
                ELSE body.doc.id]_vars

C34_Witness ==
  /\ Len(dlq) = 2
  /\ \E k \in 1..2 : DlqEntry(k).event_id = UuidStr(1)
  /\ \E k \in 1..2 : DlqEntry(k).event = JsonDumps(JsonArray)

\* C35: with several workers draining the queue while ingest goes on, every
\* enqueued payload is either still on the queue or was popped by exactly one
\* worker, exactly once.
TimesTaken(seq) == Cardinality({k \in 1..Len(taken) : taken[k].item.seq = seq})
TimesQueued(seq) == Cardinality({k \in 1..Len(queue) : queue[k].seq = seq})

C35_PoppedByExactlyOneWorker ==
  \A seq \in 1..nEnq : TimesTaken(seq) + TimesQueued(seq) = 1

C35_Witness ==
  /\ Len(taken) = MaxEnq
  /\ \E j, k \in 1..Len(taken) : taken[j].w # taken[k].w
  /\ queue = <<>>

\* C36: the pops of one batch are one atomic step of the broker: between two
\* pops of the same batch of a worker there is no pop of another worker, and
\* the payloads of a batch arrived one right after the other.
C36_BatchPopIsAtomic ==
  \A i, j, k \in 1..Len(taken) :
     (i < j /\ j < k /\ taken[i].w = taken[k].w /\ taken[i].b = taken[k].b)
        => /\ taken[j].w = taken[i].w
           /\ taken[k].item.seq = taken[i].item.seq + (k - i)

\* C40: after any sequence of patch_openai and unpatch_openai the saved
\* original is the provider's own method or nothing, never a tracked wrapper,
\* so a call passes through at most one wrapper and runs the provider's
\* method; when nothing is saved the provider's attributes hold its own
\* methods and no tracker is kept, which is the state unpatch leaves; and
\* unpatch never raises, patched or not.
C40_PatchStateInvariant ==
  /\ patch.original_create \in {None, TrueCreate}
  /\ patch.original_acreate \in {None, TrueACreate}
  /\ (patch.original_create = None) <=> (patch.original_acreate = None)
  /\ IF patch.original_create = None
     THEN /\ patch.create = TrueCreate
          /\ patch.acreate = TrueACreate
          /\ patch.tracker_instance = None
     ELSE /\ IsTracked(patch.create)
          /\ IsTracked(patch.acreate)
  /\ patch.op # None =>
       /\ patch.op.name = "unpatch_openai" =>
            /\ patch.op.raised = "none"
            /\ patch.original_create = None
       /\ patch.op.name = "call" =>
            /\ patch.op.wrappers <= 1
            /\ patch.op.ran = IF patch.op.api = "create" THEN TrueCreate
                              ELSE TrueACreate

C40_Witness ==
  /\ patch.stack = 2
  /\ patch.op # None
  /\ patch.op.name = "call"
  /\ patch.op.wrappers = 1
  /\ Len(patch.op.ingests) = 1
====
